---- MODULE Spec2Model ----
(***************************************************************************)
(* A model of src/src/fetch_data.ts: the paginated ingestion of swaps,     *)
(* mints and burns (fetchHistoricalDataWithTheGraph, makeGraphQLRequest),  *)
(* the OHLC bucketing (calculateOHLC) and the tick-liquidity replay        *)
(* (calculateLiquidityMetrics).                                            *)
(*                                                                         *)
(* The specifications share the variables:                                 *)
(*   Spec        the ingestion of the three event kinds, one after another *)
(*   SpecOHLC    calculateOHLC applied to a bounded swap array             *)
(*   SpecLedger  calculateLiquidityMetrics applied to bounded inputs, and  *)
(*               the combination of its result with the OHLC records       *)
(*   SpecReplay  calculateLiquidityMetrics on longer event arrays          *)
(*   SpecMain    main from its start to the end of the ingestion           *)
(*   SpecFair    the ingestion of a small index under weak fairness        *)
(*   SpecRun     main from the ingestion to the final emission             *)
(*   SpecRunFair SpecRun under weak fairness                               *)
(* Each one keeps the variables of the parts it leaves out at their idle   *)
(* values.                                                                 *)
(***************************************************************************)
EXTENDS Integers, Sequences, FiniteSets, TLC

VARIABLES
    \* ---- the remote index (The Graph), closed: it never changes in a run
    index,                \* [swaps, mints, burns]: events in the index's order
    maxRecords,           \* MAX_RECORDS_PER_QUERY, the page size
    \* ---- fetchHistoricalDataWithTheGraph
    pc,                   \* "start", "inflight", "retryDelay", "batchDelay", "done"
    kind,                 \* the loop that is running: "swaps", "mints", "burns"
    lastTimestampSwaps,
    skipMints,
    skipBurns,
    allSwaps,
    allMints,
    allBurns,
    returned,             \* the value the function resolves to, "pending" before
    \* ---- makeGraphQLRequest (the call in progress)
    variables,            \* the variables of the query of the call
    attempt,              \* i, the loop counter
    \* ---- observations of a run (history, not program state)
    pageRequests,         \* the calls of makeGraphQLRequest, in order
    attemptsMade,         \* client.request calls of the call in progress
    delaysWaited,         \* delay(delayMs) waits of the call in progress
    lastCall,             \* how the last finished call ended
    received,             \* per kind, the records of the pages that succeeded
    failed,               \* the kinds that had a request rejected
    exhausted,            \* the kinds whose loop caught a thrown request error
    settled,              \* the calls of makeGraphQLRequest that returned or threw
    \* ---- the pool's token decimals (arguments of the two calculations)
    token0Decimals,
    token1Decimals,
    \* ---- calculateOHLC
    ohlcPc,               \* "idle", "loop", "done"
    swaps,                \* the argument: records [timestamp, sqrtPriceX96]
    swapIdx,              \* position of the for...of loop in swaps
    currentBucketStartTimestamp,
    bucketPrices,
    ohlcDataArray,
    \* ---- calculateLiquidityMetrics
    lmPc,                 \* "idle", "loop", "done"
    ohlcRecords,          \* the arguments
    mintsArg,             \*   allMints: [id, timestamp, amount, tickLower, tickUpper]
    burnsArg,             \*   allBurns: the same fields
    tickSpacing,
    sortedMints,
    sortedBurns,
    tickLiquidityMap,     \* the Map: a function on the ticks that were set
    currentTotalLiquidityInPool,
    mintIdx,
    burnIdx,
    recordIdx,            \* position of the for...of loop in ohlcRecords
    liquidityMetrics,
    applied,              \* history: the events applied to the ledger, in order
    clamped,              \* history: a clamp to zero was triggered
    ledgerHistory,        \* history: the ledger before each applied event
    \* ---- main and its environment
    INFURA_URL,
    startTimestampStr,    \* process.env.START_TIMESTAMP: [set, value]
    endTimestampStr,      \* process.env.END_TIMESTAMP: [set, value]
    fee,                  \* the fee of the pool contract (poolContract.fee())
    mainPc,               \* "checkEnv", "fetchDetails", "fetch", "calculate",
                          \* "done", "exited"
    exitCode,             \* the code of process.exit, 0 while running
    feeLookups,           \* history: the calls of getTickSpacingFromFee
    combinedData,
    mainLog               \* history: the branches of the final emission taken

ingestVars == <<index, maxRecords, pc, kind, lastTimestampSwaps, skipMints,
                skipBurns, allSwaps, allMints, allBurns, returned, variables,
                attempt, pageRequests, attemptsMade, delaysWaited, lastCall,
                received, failed, exhausted, settled>>

decimalsVars == <<token0Decimals, token1Decimals>>

ohlcVars == <<ohlcPc, swaps, swapIdx, currentBucketStartTimestamp, bucketPrices,
              ohlcDataArray>>

ledgerVars == <<lmPc, ohlcRecords, mintsArg, burnsArg, tickSpacing, sortedMints,
                sortedBurns, tickLiquidityMap, currentTotalLiquidityInPool,
                mintIdx, burnIdx, recordIdx, liquidityMetrics, applied, clamped,
                ledgerHistory>>

mainVars == <<INFURA_URL, startTimestampStr, endTimestampStr, fee, mainPc,
              exitCode, feeLookups, combinedData, mainLog>>

vars == <<ingestVars, decimalsVars, ohlcVars, ledgerVars, mainVars>>

(***************************************************************************)
(* Bounds of the model and constants of the program.                       *)
(***************************************************************************)
MaxEvents == 3              \* events held by the index, the three kinds together
MaxPage == 2                \* largest page size tried
MaxOhlcSwaps == 3           \* longest swap array given to calculateOHLC
MaxLedgerEvents == 2        \* mints and burns given to calculateLiquidityMetrics
MAX_RETRIES == 3
BUCKET_INTERVAL_SECONDS == 3600
startTimestamp == 10
endTimestamp == 40
Times == {10, 20, 30, 40}   \* timestamps of the events of the index

Kinds == {"swaps", "mints", "burns"}

(***************************************************************************)
(* Sequences.                                                              *)
(***************************************************************************)
Take(s, n) == SubSeq(s, 1, IF n < Len(s) THEN n ELSE Len(s))
Drop(s, n) == SubSeq(s, n + 1, Len(s))
Last(s) == s[Len(s)]

IsSortedByTimestamp(s) ==
    \A a, b \in 1..Len(s) : a < b => s[a].timestamp <= s[b].timestamp

(***************************************************************************)
(* The remote index.  An entity is [id, timestamp]; ids are unique within  *)
(* a kind.  A query filters by its where clause, orders by timestamp       *)
(* ascending (the index's order, which fixes the order of equal            *)
(* timestamps), skips `skip` records and returns the first `first`.        *)
(***************************************************************************)
SortedTimes(n) ==
    {ts \in [1..n -> Times] : \A a, b \in 1..n : a < b => ts[a] <= ts[b]}

Entities(ts) == [j \in 1..Len(ts) |-> [id |-> j, timestamp |-> ts[j]]]

Indexes ==
    {[swaps |-> Entities(s), mints |-> Entities(m), burns |-> Entities(b)] :
        <<s, m, b>> \in
            {t \in (UNION {SortedTimes(n) : n \in 0..MaxEvents})
                 \X (UNION {SortedTimes(n) : n \in 0..MaxEvents})
                 \X (UNION {SortedTimes(n) : n \in 0..MaxEvents}) :
                Len(t[1]) + Len(t[2]) + Len(t[3]) <= MaxEvents}}

\* swaps(first: $maxRecords, where: {timestamp_gte: $startTime,
\*       timestamp_lt: $endTime}, orderBy: timestamp, orderDirection: asc)
swapQuery(v) ==
    Take(SelectSeq(index.swaps,
                   LAMBDA e : e.timestamp >= v.startTime /\ e.timestamp < v.endTime),
         v.maxRecords)

\* mints(first: $maxRecords, skip: $skip, where: {timestamp_gte: $startTime,
\*       timestamp_lte: $endTime}, orderBy: timestamp, orderDirection: asc)
mintQuery(v) ==
    Take(Drop(SelectSeq(index.mints,
                        LAMBDA e : e.timestamp >= v.startTime /\ e.timestamp <= v.endTime),
              v.skip),
         v.maxRecords)

\* burns(first: $maxRecords, skip: $skip, where: {timestamp_gte: $startTime,
\*       timestamp_lte: $endTime}, orderBy: timestamp, orderDirection: asc)
burnQuery(v) ==
    Take(Drop(SelectSeq(index.burns,
                        LAMBDA e : e.timestamp >= v.startTime /\ e.timestamp <= v.endTime),
              v.skip),
         v.maxRecords)

(***************************************************************************)
(* The variables of the three queries.                                     *)
(***************************************************************************)
swapVariables(cursor) ==
    [startTime |-> cursor, endTime |-> endTimestamp, skip |-> 0,
     maxRecords |-> maxRecords]

mintVariables(skip) ==
    [startTime |-> startTimestamp, endTime |-> endTimestamp, skip |-> skip,
     maxRecords |-> maxRecords]

burnVariables(skip) ==
    [startTime |-> startTimestamp, endTime |-> endTimestamp, skip |-> skip,
     maxRecords |-> maxRecords]

NoVariables == [startTime |-> 0, endTime |-> 0, skip |-> 0, maxRecords |-> 0]

\* data.swaps.map(...), data.mints.map(...), data.burns.map(...): a record per
\* entity, with the entity's id and timestamp
ProcessedBatch(data) ==
    [j \in 1..Len(data) |-> [id |-> data[j].id, timestamp |-> data[j].timestamp]]

(***************************************************************************)
(* makeGraphQLRequest.  A call starts with i = 0 and client.request sent.  *)
(***************************************************************************)
Call(k, v) ==
    /\ kind' = k
    /\ pc' = "inflight"
    /\ variables' = v
    /\ attempt' = 0
    /\ attemptsMade' = 1
    /\ delaysWaited' = 0
    /\ pageRequests' = Append(pageRequests, [kind |-> k, variables |-> v])

\* the function returns { allSwaps, allMints, allBurns }
Return(burns) ==
    /\ pc' = "done"
    /\ returned' = [allSwaps |-> allSwaps, allMints |-> allMints, allBurns |-> burns]
    /\ UNCHANGED <<kind, variables, attempt, attemptsMade, delaysWaited, pageRequests>>

\* a loop ends (fetchMore... = false): the next loop starts, or the function returns
EndLoop(k, burns) ==
    IF k = "swaps" THEN Call("mints", mintVariables(0)) /\ UNCHANGED returned
    ELSE IF k = "mints" THEN Call("burns", burnVariables(0)) /\ UNCHANGED returned
    ELSE Return(burns)

(***************************************************************************)
(* Init: the function has not been called.                                 *)
(***************************************************************************)
IngestIdle ==
    /\ pc = "start"
    /\ kind = "swaps"
    /\ lastTimestampSwaps = startTimestamp
    /\ skipMints = 0
    /\ skipBurns = 0
    /\ allSwaps = <<>>
    /\ allMints = <<>>
    /\ allBurns = <<>>
    /\ returned = "pending"
    /\ variables = NoVariables
    /\ attempt = 0
    /\ pageRequests = <<>>
    /\ attemptsMade = 0
    /\ delaysWaited = 0
    /\ lastCall = [result |-> "none", attempts |-> 0, delays |-> 0, error |-> 0]
    /\ received = [k \in Kinds |-> <<>>]
    /\ failed = {}
    /\ exhausted = {}
    /\ settled = 0

\* the idle values of the variables of calculateOHLC
OhlcIdle ==
    /\ ohlcPc = "idle"
    /\ swaps = <<>>
    /\ swapIdx = 0
    /\ currentBucketStartTimestamp = 0
    /\ bucketPrices = <<>>
    /\ ohlcDataArray = <<>>

DecimalsIdle == token0Decimals = 0 /\ token1Decimals = 0

\* the idle values of the variables of calculateLiquidityMetrics
LedgerIdle ==
    /\ lmPc = "idle"
    /\ ohlcRecords = <<>>
    /\ mintsArg = <<>>
    /\ burnsArg = <<>>
    /\ tickSpacing = 1
    /\ sortedMints = <<>>
    /\ sortedBurns = <<>>
    /\ tickLiquidityMap = <<>>
    /\ currentTotalLiquidityInPool = 0
    /\ mintIdx = 0
    /\ burnIdx = 0
    /\ recordIdx = 0
    /\ liquidityMetrics = <<>>
    /\ applied = <<>>
    /\ clamped = FALSE
    /\ ledgerHistory = <<>>

\* a value of process.env: a string (a sequence of characters), or not set
Env(chars) == [set |-> TRUE, value |-> chars]
Unset == [set |-> FALSE, value |-> <<>>]

\* main has passed its checks with START_TIMESTAMP=10, END_TIMESTAMP=40 and a
\* pool of fee poolFee, and is at position p
MainAt(p, poolFee) ==
    /\ INFURA_URL = "https://mainnet.infura.io"
    /\ startTimestampStr = Env(<<"1", "0">>)
    /\ endTimestampStr = Env(<<"4", "0">>)
    /\ fee = poolFee
    /\ mainPc = p
    /\ exitCode = 0
    /\ feeLookups = 1
    /\ combinedData = <<>>
    /\ mainLog = {}

Init ==
    /\ index \in Indexes
    /\ maxRecords \in 1..MaxPage
    /\ IngestIdle
    /\ DecimalsIdle
    /\ OhlcIdle
    /\ LedgerIdle
    /\ MainAt("fetch", 100)

(***************************************************************************)
(* fetchHistoricalDataWithTheGraph is called: the swaps loop sends its     *)
(* first request.                                                          *)
(***************************************************************************)
Start ==
    /\ UNCHANGED <<decimalsVars, ohlcVars, ledgerVars, mainVars>>
    /\ mainPc = "fetch"
    /\ pc = "start"
    /\ Call("swaps", swapVariables(lastTimestampSwaps))
    /\ UNCHANGED <<index, maxRecords, lastTimestampSwaps, skipMints, skipBurns,
                   allSwaps, allMints, allBurns, returned, lastCall, received,
                   failed, exhausted, settled>>

(***************************************************************************)
(* The catch of the running loop: the error is logged and fetchMore... is  *)
(* set to false.  Nothing is thrown further.                               *)
(***************************************************************************)
\* a faulty variant: the catch ends the function, which returns what it holds
LoopCatch_abort(k, burns) == Return(burns)

\* a faulty variant: the catch leaves fetchMore... true and the loop asks again
LoopCatch_continue(k, burns) == Call(k, variables) /\ UNCHANGED returned

LoopCatch(k, burns) == EndLoop(k, burns)

\* makeGraphQLRequest throws `error` after `attempts` attempts and `delays` waits
Throw(error, attempts, delays) ==
    /\ lastCall' = [result |-> "thrown", attempts |-> attempts, delays |-> delays,
                    error |-> error]
    /\ exhausted' = exhausted \cup {kind}
    /\ settled' = settled + 1
    /\ LoopCatch(kind, allBurns)

\* a faulty variant: the test of the last attempt is off by one
IsLastAttempt_late(i) == i = MAX_RETRIES

\* if (i === maxRetries - 1)
IsLastAttempt(i) == i = MAX_RETRIES - 1

(***************************************************************************)
(* client.request rejects.  The error of attempt i is written i + 1.  On   *)
(* the last attempt makeGraphQLRequest throws it; otherwise the call waits *)
(* delayMs.                                                                *)
(***************************************************************************)
\* a faulty variant: a rejected request of the mints loop moves the skip
\* offset past the page that was asked for
RequestFails_skipPage ==
    /\ UNCHANGED <<decimalsVars, ohlcVars, ledgerVars, mainVars>>
    /\ pc = "inflight"
    /\ ~IsLastAttempt(attempt)
    /\ pc' = "retryDelay"
    /\ failed' = failed \cup {kind}
    /\ skipMints' = IF kind = "mints" THEN skipMints + maxRecords ELSE skipMints
    /\ UNCHANGED <<index, maxRecords, kind, lastTimestampSwaps,
                   skipBurns, allSwaps, allMints, allBurns, returned, variables,
                   attempt, pageRequests, attemptsMade, delaysWaited, lastCall,
                   received, exhausted, settled>>

RequestFails ==
    /\ UNCHANGED <<decimalsVars, ohlcVars, ledgerVars, mainVars>>
    /\ pc = "inflight"
    /\ ~IsLastAttempt(attempt)
    /\ pc' = "retryDelay"
    /\ failed' = failed \cup {kind}
    /\ UNCHANGED <<index, maxRecords, kind, lastTimestampSwaps, skipMints,
                   skipBurns, allSwaps, allMints, allBurns, returned, variables,
                   attempt, pageRequests, attemptsMade, delaysWaited, lastCall,
                   received, exhausted, settled>>

RequestExhausted ==
    /\ UNCHANGED <<decimalsVars, ohlcVars, ledgerVars, mainVars>>
    /\ pc = "inflight"
    /\ IsLastAttempt(attempt)
    /\ failed' = failed \cup {kind}
    /\ Throw(attempt + 1, attemptsMade, delaysWaited)
    /\ UNCHANGED <<index, maxRecords, lastTimestampSwaps, skipMints, skipBurns,
                   allSwaps, allMints, allBurns, received>>

(***************************************************************************)
(* The delay ends: i++.  While i < maxRetries client.request is sent again *)
(* with the same query and variables; past the loop the function throws    *)
(* its own error (written 0).                                              *)
(***************************************************************************)
RetryDelayDone ==
    /\ UNCHANGED <<decimalsVars, ohlcVars, ledgerVars, mainVars>>
    /\ pc = "retryDelay"
    /\ IF attempt + 1 < MAX_RETRIES
       THEN /\ attempt' = attempt + 1
            /\ pc' = "inflight"
            /\ attemptsMade' = attemptsMade + 1
            /\ delaysWaited' = delaysWaited + 1
            /\ UNCHANGED <<kind, variables, pageRequests, returned, lastCall,
                           exhausted, settled>>
       ELSE Throw(0, attemptsMade, delaysWaited + 1)
    /\ UNCHANGED <<index, maxRecords, lastTimestampSwaps, skipMints, skipBurns,
                   allSwaps, allMints, allBurns, received, failed>>

(***************************************************************************)
(* client.request resolves in the swaps loop.                              *)
(***************************************************************************)
\* a faulty variant: the cursor takes the last timestamp of the page, with
\* no test for a cursor that did not move
AdvanceCursor_noStallGuard(newLastTimestamp, cursor) == newLastTimestamp

\* a faulty variant: the cursor is left where it was
AdvanceCursor_stay(newLastTimestamp, cursor) == cursor

\* a faulty variant: the cursor always moves past the last timestamp
AdvanceCursor_pastLast(newLastTimestamp, cursor) == newLastTimestamp + 1

\* if (newLastTimestamp === lastTimestampSwaps) ... else ...: the value
\* lastTimestampSwaps takes after a full page
AdvanceCursor(newLastTimestamp, cursor) ==
    IF newLastTimestamp = cursor
    THEN newLastTimestamp + 1
    ELSE newLastTimestamp

SwapsPage ==
    /\ UNCHANGED <<decimalsVars, ohlcVars, ledgerVars, mainVars>>
    /\ pc = "inflight"
    /\ kind = "swaps"
    /\ LET data == swapQuery(variables) IN
       /\ lastCall' = [result |-> "returned", attempts |-> attemptsMade,
                       delays |-> delaysWaited, error |-> 0]
       /\ settled' = settled + 1
       /\ received' = [received EXCEPT !.swaps = @ \o data]
       /\ IF Len(data) > 0
          THEN /\ allSwaps' = allSwaps \o ProcessedBatch(data)
               /\ LET newLastTimestamp == Last(data).timestamp IN
                  IF Len(data) < maxRecords
                  THEN /\ EndLoop("swaps", allBurns)
                       /\ UNCHANGED lastTimestampSwaps
                  ELSE /\ lastTimestampSwaps' =
                              AdvanceCursor(newLastTimestamp, lastTimestampSwaps)
                       /\ pc' = "batchDelay"
                       /\ UNCHANGED <<kind, variables, attempt, attemptsMade,
                                      delaysWaited, pageRequests, returned>>
          ELSE /\ EndLoop("swaps", allBurns)
               /\ UNCHANGED <<allSwaps, lastTimestampSwaps>>
    /\ UNCHANGED <<index, maxRecords, skipMints, skipBurns, allMints, allBurns,
                   failed, exhausted>>

(***************************************************************************)
(* client.request resolves in the mints loop.                              *)
(***************************************************************************)
MintsPage ==
    /\ UNCHANGED <<decimalsVars, ohlcVars, ledgerVars, mainVars>>
    /\ pc = "inflight"
    /\ kind = "mints"
    /\ LET data == mintQuery(variables) IN
       /\ lastCall' = [result |-> "returned", attempts |-> attemptsMade,
                       delays |-> delaysWaited, error |-> 0]
       /\ settled' = settled + 1
       /\ received' = [received EXCEPT !.mints = @ \o data]
       /\ IF Len(data) > 0
          THEN /\ allMints' = allMints \o ProcessedBatch(data)
               /\ IF Len(data) < maxRecords
                  THEN /\ EndLoop("mints", allBurns)
                       /\ UNCHANGED skipMints
                  ELSE /\ skipMints' = skipMints + maxRecords
                       /\ pc' = "batchDelay"
                       /\ UNCHANGED <<kind, variables, attempt, attemptsMade,
                                      delaysWaited, pageRequests, returned>>
          ELSE /\ EndLoop("mints", allBurns)
               /\ UNCHANGED <<allMints, skipMints>>
    /\ UNCHANGED <<index, maxRecords, lastTimestampSwaps, skipBurns, allSwaps,
                   allBurns, failed, exhausted>>

(***************************************************************************)
(* client.request resolves in the burns loop.                              *)
(***************************************************************************)
BurnsPage ==
    /\ UNCHANGED <<decimalsVars, ohlcVars, ledgerVars, mainVars>>
    /\ pc = "inflight"
    /\ kind = "burns"
    /\ LET data == burnQuery(variables) IN
       /\ lastCall' = [result |-> "returned", attempts |-> attemptsMade,
                       delays |-> delaysWaited, error |-> 0]
       /\ settled' = settled + 1
       /\ received' = [received EXCEPT !.burns = @ \o data]
       /\ IF Len(data) > 0
          THEN /\ allBurns' = allBurns \o ProcessedBatch(data)
               /\ IF Len(data) < maxRecords
                  THEN /\ EndLoop("burns", allBurns')
                       /\ UNCHANGED skipBurns
                  ELSE /\ skipBurns' = skipBurns + maxRecords
                       /\ pc' = "batchDelay"
                       /\ UNCHANGED <<kind, variables, attempt, attemptsMade,
                                      delaysWaited, pageRequests, returned>>
          ELSE /\ EndLoop("burns", allBurns)
               /\ UNCHANGED <<allBurns, skipBurns>>
    /\ UNCHANGED <<index, maxRecords, lastTimestampSwaps, skipMints, allSwaps,
                   allMints, failed, exhausted>>

(***************************************************************************)
(* delay(BATCH_DELAY_MS) ends: the running loop sends its next request.    *)
(***************************************************************************)
BatchDelayDone ==
    /\ UNCHANGED <<decimalsVars, ohlcVars, ledgerVars, mainVars>>
    /\ pc = "batchDelay"
    /\ Call(kind,
            IF kind = "swaps" THEN swapVariables(lastTimestampSwaps)
            ELSE IF kind = "mints" THEN mintVariables(skipMints)
            ELSE burnVariables(skipBurns))
    /\ UNCHANGED <<index, maxRecords, lastTimestampSwaps, skipMints, skipBurns,
                   allSwaps, allMints, allBurns, returned, lastCall, received,
                   failed, exhausted, settled>>

Next ==
    \/ Start
    \/ RequestFails
    \/ RetryDelayDone
    \/ RequestExhausted
    \/ SwapsPage
    \/ MintsPage
    \/ BurnsPage
    \/ BatchDelayDone

Spec == Init /\ [][Next]_vars

(***************************************************************************)
(* The run under its scheduling: the function is called, every awaited     *)
(* client.request settles (it resolves or it rejects) and every delay      *)
(* ends, so a step that can be taken is taken.  The index holds up to      *)
(* MaxFairEvents events.                                                   *)
(***************************************************************************)
MaxFairEvents == 2

InitFair ==
    /\ Init
    /\ Len(index.swaps) + Len(index.mints) + Len(index.burns) <= MaxFairEvents

SpecFair == InitFair /\ [][Next]_vars /\ WF_vars(Next)

(***************************************************************************)
(* sqrtPriceX96ToPrice.  The source computes on arbitrary-precision        *)
(* integers with Q96 = 2^96 and scalingFactor = 10^18; TLC's integers have *)
(* 32 bits, so the model keeps the computation and scales the two          *)
(* constants down.  A price (a JavaScript number in the source) is written *)
(* as the integer priceBigNumber, the number of 1/scalingFactor units:     *)
(* formatUnits places the decimal point and parseFloat reads the decimal,  *)
(* which keeps the order and the equality of prices.                       *)
(***************************************************************************)
Q96 == 2^2
Q192 == 2^4
scalingFactor == 10^5

parseFloatFormatUnits(priceBigNumber) == priceBigNumber

\* a faulty variant: the branch of the zero denominator is taken
sqrtPriceX96ToPrice_degenerate(sqrtPriceX96, d0, d1) == 0

\* a faulty variant: the division is made before the scaling
sqrtPriceX96ToPrice_divideFirst(sqrtPriceX96, d0, d1) ==
    LET priceRatioX192 == sqrtPriceX96 * sqrtPriceX96
        numerator == priceRatioX192 * (10^d0)
        denominator == Q192 * (10^d1)
    IN  IF denominator = 0
        THEN 0
        ELSE parseFloatFormatUnits((numerator \div denominator) * scalingFactor)

sqrtPriceX96ToPrice(sqrtPriceX96, d0, d1) ==
    LET priceRatioX192 == sqrtPriceX96 * sqrtPriceX96
        numerator == priceRatioX192 * (10^d0)
        denominator == Q192 * (10^d1)
        scaledNumerator == numerator * scalingFactor
    IN  IF denominator = 0
        THEN 0
        ELSE parseFloatFormatUnits(scaledNumerator \div denominator)

(***************************************************************************)
(* calculateOHLC.                                                          *)
(***************************************************************************)
RECURSIVE MathMaxFrom(_, _)
MathMaxFrom(s, j) ==
    IF j = Len(s) THEN s[j]
    ELSE LET rest == MathMaxFrom(s, j + 1) IN IF s[j] > rest THEN s[j] ELSE rest

RECURSIVE MathMinFrom(_, _)
MathMinFrom(s, j) ==
    IF j = Len(s) THEN s[j]
    ELSE LET rest == MathMinFrom(s, j + 1) IN IF s[j] < rest THEN s[j] ELSE rest

\* a faulty variant: the high of a bucket is taken to be its first price
MathMax_first(s) == s[1]

\* Math.max(...bucketPrices), Math.min(...bucketPrices), of a non-empty array
MathMax(s) == MathMaxFrom(s, 1)
MathMin(s) == MathMinFrom(s, 1)

\* a faulty variant: Math.ceil in the place of Math.floor
bucketStart_ceiling(timestamp) ==
    ((timestamp + BUCKET_INTERVAL_SECONDS - 1) \div BUCKET_INTERVAL_SECONDS)
        * BUCKET_INTERVAL_SECONDS

\* a faulty variant: the quotient is not multiplied back by the interval
bucketStart_quotient(timestamp) == timestamp \div BUCKET_INTERVAL_SECONDS

\* Math.floor(timestamp / bucketIntervalSeconds) * bucketIntervalSeconds
bucketStart(timestamp) ==
    (timestamp \div BUCKET_INTERVAL_SECONDS) * BUCKET_INTERVAL_SECONDS

\* a faulty variant: close is read at index 0, as open is
OHLCRecord_closeFirst(start, prices) ==
    [timestamp |-> start,
     open |-> prices[1],
     high |-> MathMax(prices),
     low |-> MathMin(prices),
     close |-> prices[1]]

\* the record pushed for a completed bucket
OHLCRecord(start, prices) ==
    [timestamp |-> start,
     open |-> prices[1],
     high |-> MathMax(prices),
     low |-> MathMin(prices),
     close |-> prices[Len(prices)]]

\* calculateOHLC as a function of its arguments: the state of the loop after
\* the first n swaps, and the array returned
RECURSIVE OhlcLoopAfter(_, _, _, _, _)
OhlcLoopAfter(swapArray, n, bucketIntervalSeconds, d0, d1) ==
    IF n = 0
    THEN [start |-> (swapArray[1].timestamp \div bucketIntervalSeconds)
                        * bucketIntervalSeconds,
          prices |-> <<>>,
          out |-> <<>>]
    ELSE LET before == OhlcLoopAfter(swapArray, n - 1, bucketIntervalSeconds, d0, d1)
             swap == swapArray[n]
             swapPrice == sqrtPriceX96ToPrice(swap.sqrtPriceX96, d0, d1)
         IN  IF swap.timestamp < before.start + bucketIntervalSeconds
             THEN [start |-> before.start,
                   prices |-> Append(before.prices, swapPrice),
                   out |-> before.out]
             ELSE [start |-> (swap.timestamp \div bucketIntervalSeconds)
                                 * bucketIntervalSeconds,
                   prices |-> <<swapPrice>>,
                   out |-> IF Len(before.prices) > 0
                           THEN Append(before.out,
                                       OHLCRecord(before.start, before.prices))
                           ELSE before.out]

calculateOHLC(swapArray, bucketIntervalSeconds, d0, d1) ==
    IF Len(swapArray) = 0 THEN <<>>
    ELSE LET end == OhlcLoopAfter(swapArray, Len(swapArray),
                                  bucketIntervalSeconds, d0, d1)
         IN  IF Len(end.prices) > 0
             THEN Append(end.out, OHLCRecord(end.start, end.prices))
             ELSE end.out

OhlcTimes == {100, 1800, 3500, 3600, 7300}
SqrtPrices == {3, 4, 5}
Decimals == {0, 1}
\* decimals of token1 for calculateOHLC: with 2 the division of
\* sqrtPriceX96ToPrice has a remainder
Decimals1 == Decimals \cup {2}

SwapArrays ==
    UNION {[1..n -> [timestamp : OhlcTimes, sqrtPriceX96 : SqrtPrices]] :
               n \in 0..MaxOhlcSwaps}

\* the function is called: an empty array returns at once
OhlcStart ==
    /\ ohlcPc = "idle"
    /\ IF Len(swaps) = 0
       THEN /\ ohlcPc' = "done"
            /\ UNCHANGED <<swapIdx, currentBucketStartTimestamp>>
       ELSE /\ ohlcPc' = "loop"
            /\ swapIdx' = 1
            /\ currentBucketStartTimestamp' = bucketStart(swaps[1].timestamp)
    /\ bucketPrices' = <<>>
    /\ ohlcDataArray' = <<>>
    /\ UNCHANGED <<ingestVars, decimalsVars, ledgerVars, mainVars, swaps>>

\* one iteration of the loop: the swap falls before the end of the bucket
OhlcPush ==
    /\ ohlcPc = "loop"
    /\ swapIdx <= Len(swaps)
    /\ LET swap == swaps[swapIdx]
           swapPrice == sqrtPriceX96ToPrice(swap.sqrtPriceX96, token0Decimals,
                                            token1Decimals)
       IN  /\ swap.timestamp < currentBucketStartTimestamp + BUCKET_INTERVAL_SECONDS
           /\ bucketPrices' = Append(bucketPrices, swapPrice)
    /\ swapIdx' = swapIdx + 1
    /\ UNCHANGED <<ingestVars, decimalsVars, ledgerVars, mainVars, ohlcPc, swaps,
                   currentBucketStartTimestamp, ohlcDataArray>>

\* one iteration of the loop: the swap is past the bucket, which is completed
OhlcRoll ==
    /\ ohlcPc = "loop"
    /\ swapIdx <= Len(swaps)
    /\ LET swap == swaps[swapIdx]
           swapPrice == sqrtPriceX96ToPrice(swap.sqrtPriceX96, token0Decimals,
                                            token1Decimals)
       IN  /\ ~(swap.timestamp < currentBucketStartTimestamp + BUCKET_INTERVAL_SECONDS)
           /\ ohlcDataArray' =
                  IF Len(bucketPrices) > 0
                  THEN Append(ohlcDataArray,
                              OHLCRecord(currentBucketStartTimestamp, bucketPrices))
                  ELSE ohlcDataArray
           /\ currentBucketStartTimestamp' = bucketStart(swap.timestamp)
           /\ bucketPrices' = <<swapPrice>>
    /\ swapIdx' = swapIdx + 1
    /\ UNCHANGED <<ingestVars, decimalsVars, ledgerVars, mainVars, ohlcPc, swaps>>

\* after the loop: the last bucket is pushed and the array returned
OhlcFinish ==
    /\ ohlcPc = "loop"
    /\ swapIdx > Len(swaps)
    /\ ohlcDataArray' =
           IF Len(bucketPrices) > 0
           THEN Append(ohlcDataArray,
                       OHLCRecord(currentBucketStartTimestamp, bucketPrices))
           ELSE ohlcDataArray
    /\ ohlcPc' = "done"
    /\ UNCHANGED <<ingestVars, decimalsVars, ledgerVars, mainVars, swaps, swapIdx,
                   currentBucketStartTimestamp, bucketPrices>>

\* the ingestion is not running
IngestOff ==
    /\ index = [swaps |-> <<>>, mints |-> <<>>, burns |-> <<>>]
    /\ maxRecords = 1
    /\ IngestIdle

InitOHLC ==
    /\ IngestOff
    /\ token0Decimals \in Decimals
    /\ token1Decimals \in Decimals1
    /\ ohlcPc = "idle"
    /\ swaps \in SwapArrays
    /\ swapIdx = 0
    /\ currentBucketStartTimestamp = 0
    /\ bucketPrices = <<>>
    /\ ohlcDataArray = <<>>
    /\ LedgerIdle
    /\ MainAt("calculate", 100)

NextOHLC ==
    \/ OhlcStart
    \/ OhlcPush
    \/ OhlcRoll
    \/ OhlcFinish

SpecOHLC == InitOHLC /\ [][NextOHLC]_vars

(***************************************************************************)
(* getTickSpacingFromFee.  The outcome is [returns |-> spacing], or         *)
(* [throws |-> message] for the Error of the default case.                 *)
(***************************************************************************)
\* a faulty variant: the default case returns a spacing
getTickSpacingFromFee_default(f) ==
    CASE f = 100 -> [returns |-> 1]
      [] f = 500 -> [returns |-> 10]
      [] f = 3000 -> [returns |-> 60]
      [] f = 10000 -> [returns |-> 200]
      [] OTHER -> [returns |-> 60]

getTickSpacingFromFee(f) ==
    CASE f = 100 -> [returns |-> 1]
      [] f = 500 -> [returns |-> 10]
      [] f = 3000 -> [returns |-> 60]
      [] f = 10000 -> [returns |-> 200]
      [] OTHER -> [throws |-> "Unknown fee"]

Threw(outcome) == "throws" \in DOMAIN outcome

(***************************************************************************)
(* priceToTick.  Math.log(effectivePrice) / Math.log(1.00005) is tabulated *)
(* for the prices of the model, in thousandths of a tick rounded down (the *)
(* values IEEE doubles give); the rounding to the tick spacing is computed *)
(* from it as the source does, Math.round(x) being floor(x + 1/2).  Prices *)
(* are positive and token0Decimals = token1Decimals in the model.          *)
(***************************************************************************)
rawTickMilli(effectivePrice) ==
    CASE effectivePrice = 100000 -> 0       \* log(1.0000) / log(1.00005) = 0
      [] effectivePrice = 100010 -> 1999    \* log(1.0001) / log(1.00005) = 1.99995...
      [] effectivePrice = 100050 -> 9997    \* log(1.0005) / log(1.00005) = 9.99775...
      [] effectivePrice = 101149 -> 228495  \* log(1.01149) / log(1.00005) = 228.49553...

\* Math.round(rawTick / tickSpacing)
MathRoundDiv(milli, spacing) == (2 * milli + 1000 * spacing) \div (2000 * spacing)

priceToTick(price, d0, d1, spacing) ==
    LET effectivePrice == IF d1 >= d0 THEN price * (10^(d1 - d0))
                          ELSE price \div (10^(d0 - d1))
        rawTick == rawTickMilli(effectivePrice)
        roundedTick == MathRoundDiv(rawTick, spacing) * spacing
    IN  roundedTick

(***************************************************************************)
(* calculateLiquidityMetrics.                                              *)
(***************************************************************************)
\* [...a].sort((a, b) => parseInt(a.timestamp) - parseInt(b.timestamp)): stable
RECURSIVE SortByTimestamp(_)
SortByTimestamp(a) ==
    IF Len(a) = 0 THEN <<>>
    ELSE LET front == SortByTimestamp(SubSeq(a, 1, Len(a) - 1))
             e == a[Len(a)]
             k == Cardinality({j \in 1..Len(front) : front[j].timestamp <= e.timestamp})
         IN  SubSeq(front, 1, k) \o <<e>> \o SubSeq(front, k + 1, Len(front))

\* tickLiquidityMap.get(t) || ethers.BigNumber.from(0)
MapGet(map, t) == IF t \in DOMAIN map THEN map[t] ELSE 0

\* a faulty variant: the loop over the ticks of a position includes tickUpper
TicksOf_inclusive(tickLower, tickUpper) == tickLower..tickUpper

\* for (let t = tickLower; t < tickUpper; t += 1)
TicksOf(tickLower, tickUpper) == tickLower..(tickUpper - 1)

\* a faulty variant: the amount is set on a tick, not added to what it holds
MapAdd_overwrite(map, tickLower, tickUpper, liquidityAmount) ==
    [t \in DOMAIN map \cup TicksOf(tickLower, tickUpper) |->
        IF t \in TicksOf(tickLower, tickUpper)
        THEN liquidityAmount
        ELSE map[t]]

\* the mint loop body on the map: every tick of the range gains the amount
MapAdd(map, tickLower, tickUpper, liquidityAmount) ==
    [t \in DOMAIN map \cup TicksOf(tickLower, tickUpper) |->
        IF t \in TicksOf(tickLower, tickUpper)
        THEN MapGet(map, t) + liquidityAmount
        ELSE map[t]]

\* a faulty variant: once one tick of the range would go negative, every
\* tick of the range is set to 0
MapSub_clampTogether(map, tickLower, tickUpper, liquidityAmount) ==
    [t \in DOMAIN map \cup TicksOf(tickLower, tickUpper) |->
        IF t \in TicksOf(tickLower, tickUpper)
        THEN (IF \E u \in TicksOf(tickLower, tickUpper) :
                     MapGet(map, u) - liquidityAmount < 0
              THEN 0
              ELSE MapGet(map, t) - liquidityAmount)
        ELSE map[t]]

\* a faulty variant: the burn loop runs up to tickUpper, tickUpper included
MapSub_inclusive(map, tickLower, tickUpper, liquidityAmount) ==
    [t \in DOMAIN map \cup (tickLower..tickUpper) |->
        IF t \in tickLower..tickUpper
        THEN (IF MapGet(map, t) - liquidityAmount < 0
              THEN 0
              ELSE MapGet(map, t) - liquidityAmount)
        ELSE map[t]]

\* a faulty variant: a negative result is stored as it is
MapSub_noClamp(map, tickLower, tickUpper, liquidityAmount) ==
    [t \in DOMAIN map \cup TicksOf(tickLower, tickUpper) |->
        IF t \in TicksOf(tickLower, tickUpper)
        THEN MapGet(map, t) - liquidityAmount
        ELSE map[t]]

\* the burn loop body on the map: every tick of the range loses the amount,
\* a negative result being replaced by 0
MapSub(map, tickLower, tickUpper, liquidityAmount) ==
    [t \in DOMAIN map \cup TicksOf(tickLower, tickUpper) |->
        IF t \in TicksOf(tickLower, tickUpper)
        THEN (IF MapGet(map, t) - liquidityAmount < 0
              THEN 0
              ELSE MapGet(map, t) - liquidityAmount)
        ELSE map[t]]

\* the sum of tickLiquidityMap.get(t) || 0 over the ticks of a loop: a tick
\* the map does not hold adds 0, so the sum runs over the ticks it holds
RECURSIVE SumOver(_, _)
SumOver(map, ticks) ==
    LET held == ticks \cap DOMAIN map
    IN  IF held = {} THEN 0
        ELSE LET t == CHOOSE x \in held : TRUE
             IN  MapGet(map, t) + SumOver(map, held \ {t})

\* a faulty variant: the loop runs up to finalHighTick, finalHighTick included
ActiveLiquidity_inclusive(map, lowTickRange, highTickRange) ==
    LET finalLowTick == IF lowTickRange < highTickRange THEN lowTickRange
                        ELSE highTickRange
        finalHighTick == IF lowTickRange > highTickRange THEN lowTickRange
                         ELSE highTickRange
    IN  SumOver(map, finalLowTick..finalHighTick)

\* a faulty variant: the two ticks are used as given, without Math.min and
\* Math.max
ActiveLiquidity_noSwap(map, lowTickRange, highTickRange) ==
    SumOver(map, TicksOf(lowTickRange, highTickRange))

\* the loop from finalLowTick to finalHighTick, the high tick excluded
ActiveLiquidity(map, lowTickRange, highTickRange) ==
    LET finalLowTick == IF lowTickRange < highTickRange THEN lowTickRange
                        ELSE highTickRange
        finalHighTick == IF lowTickRange > highTickRange THEN lowTickRange
                         ELSE highTickRange
    IN  SumOver(map, TicksOf(finalLowTick, finalHighTick))

\* the ratio is parseFloat(formatUnits(active * 10^18 / total, 18)) in the
\* source; the model scales 10^18 down and writes the ratio as the integer
\* number of 1/ratioScalingFactor units
ratioScalingFactor == 10^5

\* a faulty variant: the division is made before the scaling
Ratio_divideFirst(activeLiquidity, total) ==
    IF total = 0 \/ activeLiquidity = 0
    THEN 0
    ELSE parseFloatFormatUnits((activeLiquidity \div total) * ratioScalingFactor)

Ratio(activeLiquidity, total) ==
    IF total = 0 \/ activeLiquidity = 0
    THEN 0
    ELSE parseFloatFormatUnits((activeLiquidity * ratioScalingFactor) \div total)

\* a faulty variant: the mint loop stops at a mint that is later than the
\* next burn of the bucket, the two loops being merged by timestamp
MintPending_merged ==
    /\ mintIdx < Len(sortedMints)
    /\ sortedMints[mintIdx + 1].timestamp <
           ohlcRecords[recordIdx].timestamp + BUCKET_INTERVAL_SECONDS
    /\ IF burnIdx >= Len(sortedBurns)
       THEN TRUE
       ELSE IF sortedBurns[burnIdx + 1].timestamp >=
                   ohlcRecords[recordIdx].timestamp + BUCKET_INTERVAL_SECONDS
            THEN TRUE
            ELSE sortedMints[mintIdx + 1].timestamp <=
                     sortedBurns[burnIdx + 1].timestamp

\* a faulty variant: a mint at the end of the bucket is taken with the bucket
MintPending_inclusive ==
    /\ mintIdx < Len(sortedMints)
    /\ sortedMints[mintIdx + 1].timestamp <=
           ohlcRecords[recordIdx].timestamp + BUCKET_INTERVAL_SECONDS

\* while (mintIdx < sortedMints.length && timestamp < bucketEndTime)
MintPending ==
    /\ mintIdx < Len(sortedMints)
    /\ sortedMints[mintIdx + 1].timestamp <
           ohlcRecords[recordIdx].timestamp + BUCKET_INTERVAL_SECONDS

\* while (burnIdx < sortedBurns.length && timestamp < bucketEndTime)
BurnPending ==
    /\ burnIdx < Len(sortedBurns)
    /\ sortedBurns[burnIdx + 1].timestamp <
           ohlcRecords[recordIdx].timestamp + BUCKET_INTERVAL_SECONDS

\* the function is called: no record returns at once; else the arrays are sorted
LmStart ==
    /\ lmPc = "idle"
    /\ IF Len(ohlcRecords) = 0
       THEN /\ lmPc' = "done"
            /\ UNCHANGED <<sortedMints, sortedBurns, recordIdx>>
       ELSE /\ lmPc' = "loop"
            /\ sortedMints' = SortByTimestamp(mintsArg)
            /\ sortedBurns' = SortByTimestamp(burnsArg)
            /\ recordIdx' = 1
    /\ tickLiquidityMap' = <<>>
    /\ currentTotalLiquidityInPool' = 0
    /\ mintIdx' = 0
    /\ burnIdx' = 0
    /\ liquidityMetrics' = <<>>
    /\ UNCHANGED <<ingestVars, decimalsVars, ohlcVars, mainVars, ohlcRecords, mintsArg,
                   burnsArg, tickSpacing, applied, clamped, ledgerHistory>>

\* one iteration of the mint loop of the current record
LmApplyMint ==
    /\ lmPc = "loop"
    /\ MintPending
    /\ LET mint == sortedMints[mintIdx + 1] IN
       /\ currentTotalLiquidityInPool' = currentTotalLiquidityInPool + mint.amount
       /\ tickLiquidityMap' =
              MapAdd(tickLiquidityMap, mint.tickLower, mint.tickUpper, mint.amount)
       /\ applied' = Append(applied, [kind |-> "mint", event |-> mint])
       /\ ledgerHistory' =
              Append(ledgerHistory, [total |-> currentTotalLiquidityInPool,
                                     map |-> tickLiquidityMap])
    /\ mintIdx' = mintIdx + 1
    /\ UNCHANGED <<ingestVars, decimalsVars, ohlcVars, mainVars, lmPc, ohlcRecords, mintsArg,
                   burnsArg, tickSpacing, sortedMints, sortedBurns, burnIdx,
                   recordIdx, liquidityMetrics, clamped>>

\* one iteration of the burn loop of the current record (the mint loop is over)
LmApplyBurn ==
    /\ lmPc = "loop"
    /\ ~MintPending
    /\ BurnPending
    /\ LET burn == sortedBurns[burnIdx + 1] IN
       /\ currentTotalLiquidityInPool' =
              IF currentTotalLiquidityInPool - burn.amount < 0
              THEN 0
              ELSE currentTotalLiquidityInPool - burn.amount
       /\ tickLiquidityMap' =
              MapSub(tickLiquidityMap, burn.tickLower, burn.tickUpper, burn.amount)
       /\ clamped' =
              \/ clamped
              \/ currentTotalLiquidityInPool - burn.amount < 0
              \/ \E t \in TicksOf(burn.tickLower, burn.tickUpper) :
                     MapGet(tickLiquidityMap, t) - burn.amount < 0
       /\ applied' = Append(applied, [kind |-> "burn", event |-> burn])
       /\ ledgerHistory' =
              Append(ledgerHistory, [total |-> currentTotalLiquidityInPool,
                                     map |-> tickLiquidityMap])
    /\ burnIdx' = burnIdx + 1
    /\ UNCHANGED <<ingestVars, decimalsVars, ohlcVars, mainVars, lmPc, ohlcRecords, mintsArg,
                   burnsArg, tickSpacing, sortedMints, sortedBurns, mintIdx,
                   recordIdx, liquidityMetrics>>

\* a faulty variant: a record met with an empty pool gets no metric
LmEmitMetric_skipZero ==
    /\ lmPc = "loop"
    /\ ~MintPending
    /\ ~BurnPending
    /\ LET ohlcRecord == ohlcRecords[recordIdx]
           lowTickRange == priceToTick(ohlcRecord.low, token0Decimals,
                                       token1Decimals, tickSpacing)
           highTickRange == priceToTick(ohlcRecord.high, token0Decimals,
                                        token1Decimals, tickSpacing)
           activeLiquidity ==
               ActiveLiquidity(tickLiquidityMap, lowTickRange, highTickRange)
       IN  liquidityMetrics' =
               IF currentTotalLiquidityInPool = 0
               THEN liquidityMetrics
               ELSE Append(liquidityMetrics,
                           [timestamp |-> ohlcRecord.timestamp,
                            activeLiquidityInRange |-> activeLiquidity,
                            totalLiquidityInPool |-> currentTotalLiquidityInPool,
                            ratio |-> Ratio(activeLiquidity,
                                            currentTotalLiquidityInPool)])
    /\ IF recordIdx = Len(ohlcRecords)
       THEN lmPc' = "done" /\ UNCHANGED recordIdx
       ELSE recordIdx' = recordIdx + 1 /\ UNCHANGED lmPc
    /\ UNCHANGED <<ingestVars, decimalsVars, ohlcVars, mainVars, ohlcRecords,
                   mintsArg, burnsArg, tickSpacing, sortedMints, sortedBurns,
                   tickLiquidityMap, currentTotalLiquidityInPool, mintIdx,
                   burnIdx, applied, clamped, ledgerHistory>>

\* both loops are over: the metric of the current record is computed and
\* pushed; after the last record the array is returned
LmEmitMetric ==
    /\ lmPc = "loop"
    /\ ~MintPending
    /\ ~BurnPending
    /\ LET ohlcRecord == ohlcRecords[recordIdx]
           lowTickRange == priceToTick(ohlcRecord.low, token0Decimals,
                                       token1Decimals, tickSpacing)
           highTickRange == priceToTick(ohlcRecord.high, token0Decimals,
                                        token1Decimals, tickSpacing)
           activeLiquidity ==
               ActiveLiquidity(tickLiquidityMap, lowTickRange, highTickRange)
       IN  liquidityMetrics' =
               Append(liquidityMetrics,
                      [timestamp |-> ohlcRecord.timestamp,
                       activeLiquidityInRange |-> activeLiquidity,
                       totalLiquidityInPool |-> currentTotalLiquidityInPool,
                       ratio |-> Ratio(activeLiquidity, currentTotalLiquidityInPool)])
    /\ IF recordIdx = Len(ohlcRecords)
       THEN lmPc' = "done" /\ UNCHANGED recordIdx
       ELSE recordIdx' = recordIdx + 1 /\ UNCHANGED lmPc
    /\ UNCHANGED <<ingestVars, decimalsVars, ohlcVars, mainVars, ohlcRecords, mintsArg,
                   burnsArg, tickSpacing, sortedMints, sortedBurns,
                   tickLiquidityMap, currentTotalLiquidityInPool, mintIdx,
                   burnIdx, applied, clamped, ledgerHistory>>

(***************************************************************************)
(* The arguments of the model.  The records are what calculateOHLC         *)
(* returns: bucket starts are multiples of the bucket width and strictly   *)
(* increasing, and low <= open, close <= high.  Positions have             *)
(* tickLower < tickUpper and a positive amount; the arrays need not be     *)
(* sorted.                                                                 *)
(***************************************************************************)
LowHighs == {<<100000, 100000>>, <<100000, 100010>>, <<100000, 100050>>,
             <<100000, 101149>>}

OhlcRecordOf(start, lowHigh) ==
    [timestamp |-> start, open |-> lowHigh[1], high |-> lowHigh[2],
     low |-> lowHigh[1], close |-> lowHigh[2]]

OhlcRecordArrays ==
    {<<>>}
    \cup {<<OhlcRecordOf(t, p)>> : t \in {0, 7200}, p \in LowHighs}
    \cup {<<OhlcRecordOf(0, p), OhlcRecordOf(7200, q)>> : p \in LowHighs, q \in LowHighs}

LedgerEventTimes == {100, 3600}
Amounts == {1, 2}
Positions == {<<0, 2>>, <<1, 3>>}

LedgerEvents ==
    [timestamp : LedgerEventTimes, amount : Amounts, position : Positions]

WithIds(a) ==
    [j \in 1..Len(a) |->
        [id |-> j, timestamp |-> a[j].timestamp, amount |-> a[j].amount,
         tickLower |-> a[j].position[1], tickUpper |-> a[j].position[2]]]

LedgerEventArrays(n) == {WithIds(a) : a \in [1..n -> LedgerEvents]}

InitLedger ==
    /\ IngestOff
    /\ OhlcIdle
    /\ token0Decimals \in Decimals
    /\ token1Decimals = token0Decimals
    /\ lmPc = "idle"
    /\ ohlcRecords \in OhlcRecordArrays
    /\ \E n \in 0..MaxLedgerEvents : \E m \in 0..(MaxLedgerEvents - n) :
           /\ mintsArg \in LedgerEventArrays(n)
           /\ burnsArg \in LedgerEventArrays(m)
    /\ \E poolFee \in {100, 500} :
           /\ MainAt("calculate", poolFee)
           /\ tickSpacing = getTickSpacingFromFee(poolFee).returns
    /\ sortedMints = <<>>
    /\ sortedBurns = <<>>
    /\ tickLiquidityMap = <<>>
    /\ currentTotalLiquidityInPool = 0
    /\ mintIdx = 0
    /\ burnIdx = 0
    /\ recordIdx = 0
    /\ liquidityMetrics = <<>>
    /\ applied = <<>>
    /\ clamped = FALSE
    /\ ledgerHistory = <<>>

(***************************************************************************)
(* main, the final emission: the OHLC records and the liquidity metrics    *)
(* are combined index by index and written to the CSV file.                *)
(***************************************************************************)
\* combinedData.push({...}) of index i
FinalHistoricalData(ohlc, metric) ==
    [timestamp |-> ohlc.timestamp,
     open |-> ohlc.open,
     high |-> ohlc.high,
     low |-> ohlc.low,
     close |-> ohlc.close,
     activeLiquidityInRange |-> metric.activeLiquidityInRange,
     totalLiquidityInPool |-> metric.totalLiquidityInPool,
     liquidityRatio |-> metric.ratio]

MainCombine ==
    /\ mainPc = "calculate"
    /\ lmPc = "done"
    /\ mainPc' = "done"
    /\ IF Len(ohlcRecords) > 0 /\ Len(liquidityMetrics) > 0
       THEN IF Len(ohlcRecords) # Len(liquidityMetrics)
            THEN /\ mainLog' = mainLog \cup {"lengthMismatch"}
                 /\ UNCHANGED combinedData
            ELSE /\ combinedData' =
                        [i \in 1..Len(ohlcRecords) |->
                            FinalHistoricalData(ohlcRecords[i], liquidityMetrics[i])]
                 /\ \E writeOk \in BOOLEAN :
                        mainLog' =
                            mainLog
                            \cup {"combined"}
                            \cup (IF \E i \in 1..Len(ohlcRecords) :
                                       ohlcRecords[i].timestamp #
                                           liquidityMetrics[i].timestamp
                                  THEN {"timestampMismatch"} ELSE {})
                            \cup (IF Len(combinedData') > 0
                                  THEN (IF writeOk THEN {"written"} ELSE {"writeFailed"})
                                  ELSE {"noCombinedData"})
       ELSE /\ mainLog' = mainLog \cup {"notEnoughData"}
            /\ UNCHANGED combinedData
    /\ UNCHANGED <<ingestVars, decimalsVars, ohlcVars, ledgerVars, INFURA_URL,
                   startTimestampStr, endTimestampStr, fee, exitCode, feeLookups>>

NextLedger ==
    \/ LmStart
    \/ LmApplyMint
    \/ LmApplyBurn
    \/ LmEmitMetric
    \/ MainCombine

SpecLedger == InitLedger /\ [][NextLedger]_vars

(***************************************************************************)
(* calculateLiquidityMetrics on longer event arrays: one record whose      *)
(* bucket ends after every event, or two records with the events of second *)
(* 3600 between them.                                                      *)
(***************************************************************************)
MaxReplayEvents == 3

ReplayRecordArrays ==
    {<<OhlcRecordOf(7200, <<100000, 100010>>)>>,
     <<OhlcRecordOf(0, <<100000, 100010>>), OhlcRecordOf(7200, <<100000, 100010>>)>>}

InitReplay ==
    /\ IngestOff
    /\ OhlcIdle
    /\ DecimalsIdle
    /\ MainAt("calculate", 100)
    /\ lmPc = "idle"
    /\ ohlcRecords \in ReplayRecordArrays
    /\ \E n \in 0..MaxReplayEvents : \E k \in 0..(MaxReplayEvents - n) :
           /\ mintsArg \in LedgerEventArrays(n)
           /\ burnsArg \in LedgerEventArrays(k)
    /\ tickSpacing = getTickSpacingFromFee(100).returns
    /\ sortedMints = <<>>
    /\ sortedBurns = <<>>
    /\ tickLiquidityMap = <<>>
    /\ currentTotalLiquidityInPool = 0
    /\ mintIdx = 0
    /\ burnIdx = 0
    /\ recordIdx = 0
    /\ liquidityMetrics = <<>>
    /\ applied = <<>>
    /\ clamped = FALSE
    /\ ledgerHistory = <<>>

SpecReplay == InitReplay /\ [][NextLedger]_vars

(***************************************************************************)
(* main, from its start to the end of the ingestion.                       *)
(*                                                                         *)
(* parseInt(string, 10) reads the longest prefix of decimal digits and     *)
(* gives NaN when there is none; the strings of the model have no sign and *)
(* no leading white space.  NaN is written as the number -1, which no      *)
(* string of digits gives.                                                 *)
(***************************************************************************)
NaN == 0 - 1

isNaN(n) == n = NaN

Digits == {"0", "1", "2", "3", "4", "5", "6", "7", "8", "9"}

DigitValue(c) ==
    CASE c = "0" -> 0 [] c = "1" -> 1 [] c = "2" -> 2 [] c = "3" -> 3
      [] c = "4" -> 4 [] c = "5" -> 5 [] c = "6" -> 6 [] c = "7" -> 7
      [] c = "8" -> 8 [] c = "9" -> 9

RECURSIVE ParseDigits(_, _, _)
ParseDigits(s, i, acc) ==
    IF i > Len(s) \/ s[i] \notin Digits THEN acc
    ELSE ParseDigits(s, i + 1, acc * 10 + DigitValue(s[i]))

parseInt(s) ==
    IF Len(s) = 0 \/ s[1] \notin Digits THEN NaN ELSE ParseDigits(s, 1, 0)

\* !str of a value of process.env: not set, or the empty string
Not(e) == ~e.set \/ e.value = <<>>

\* process.exit(code)
Exit(code) ==
    /\ mainPc' = "exited"
    /\ exitCode' = code

\* the checks of INFURA_URL, START_TIMESTAMP and END_TIMESTAMP
MainCheckEnv ==
    /\ mainPc = "checkEnv"
    /\ IF INFURA_URL = "YOUR_RPC_URL_HERE" \/ INFURA_URL = ""
       THEN Exit(1)
       ELSE IF Not(startTimestampStr) \/ Not(endTimestampStr)
       THEN Exit(1)
       ELSE IF \/ isNaN(parseInt(startTimestampStr.value))
               \/ isNaN(parseInt(endTimestampStr.value))
       THEN Exit(1)
       ELSE IF parseInt(startTimestampStr.value) >= parseInt(endTimestampStr.value)
       THEN Exit(1)
       ELSE mainPc' = "fetchDetails" /\ UNCHANGED exitCode
    /\ UNCHANGED <<ingestVars, decimalsVars, ohlcVars, ledgerVars, INFURA_URL,
                   startTimestampStr, endTimestampStr, fee, feeLookups,
                   combinedData, mainLog>>

\* the try block that reads the token addresses, the decimals and the fee
\* from the chain and looks the tick spacing up; any error in it exits
MainFetchDetails ==
    /\ mainPc = "fetchDetails"
    /\ \E failAt \in {"none", "token", "decimals", "fee"} :
       \E d0 \in Decimals, d1 \in Decimals :
           /\ IF failAt \in {"none", "fee"}
              THEN token0Decimals' = d0 /\ token1Decimals' = d1
              ELSE UNCHANGED decimalsVars
           /\ IF failAt = "none"
              THEN /\ feeLookups' = feeLookups + 1
                   /\ IF Threw(getTickSpacingFromFee(fee))
                      THEN Exit(1) /\ UNCHANGED tickSpacing
                      ELSE /\ tickSpacing' = getTickSpacingFromFee(fee).returns
                           /\ mainPc' = "fetch"
                           /\ UNCHANGED exitCode
              ELSE /\ Exit(1)
                   /\ UNCHANGED <<feeLookups, tickSpacing>>
    /\ UNCHANGED <<ingestVars, ohlcVars, lmPc, ohlcRecords, mintsArg, burnsArg,
                   sortedMints, sortedBurns, tickLiquidityMap,
                   currentTotalLiquidityInPool, mintIdx, burnIdx, recordIdx,
                   liquidityMetrics, applied, clamped, ledgerHistory, INFURA_URL,
                   startTimestampStr, endTimestampStr, fee, combinedData, mainLog>>

\* a faulty variant: main goes on without awaiting the function
MainFetched_early ==
    /\ mainPc = "fetch"
    /\ pc # "start"
    /\ mainPc' = "calculate"
    /\ UNCHANGED <<ingestVars, decimalsVars, ohlcVars, ledgerVars, INFURA_URL,
                   startTimestampStr, endTimestampStr, fee, exitCode, feeLookups,
                   combinedData, mainLog>>

\* fetchHistoricalDataWithTheGraph has returned: main goes on to the
\* calculations
MainFetched ==
    /\ mainPc = "fetch"
    /\ pc = "done"
    /\ mainPc' = "calculate"
    /\ UNCHANGED <<ingestVars, decimalsVars, ohlcVars, ledgerVars, INFURA_URL,
                   startTimestampStr, endTimestampStr, fee, exitCode, feeLookups,
                   combinedData, mainLog>>

MaxMainEvents == 1

EnvStrings ==
    {Unset, Env(<<>>), Env(<<"x">>), Env(<<"1", "0">>), Env(<<"4", "0">>),
     Env(<<"1", "0", "x">>)}

Fees == {100, 500, 3000, 10000, 250}

InitMain ==
    /\ index \in {i \in Indexes :
                     Len(i.swaps) + Len(i.mints) + Len(i.burns) <= MaxMainEvents}
    /\ maxRecords \in 1..MaxPage
    /\ IngestIdle
    /\ DecimalsIdle
    /\ OhlcIdle
    /\ lmPc = "idle"
    /\ ohlcRecords = <<>>
    /\ mintsArg = <<>>
    /\ burnsArg = <<>>
    /\ tickSpacing = 0
    /\ sortedMints = <<>>
    /\ sortedBurns = <<>>
    /\ tickLiquidityMap = <<>>
    /\ currentTotalLiquidityInPool = 0
    /\ mintIdx = 0
    /\ burnIdx = 0
    /\ recordIdx = 0
    /\ liquidityMetrics = <<>>
    /\ applied = <<>>
    /\ clamped = FALSE
    /\ ledgerHistory = <<>>
    /\ INFURA_URL \in {"YOUR_RPC_URL_HERE", "https://mainnet.infura.io"}
    /\ startTimestampStr \in EnvStrings
    /\ endTimestampStr \in EnvStrings
    /\ fee \in Fees
    /\ mainPc = "checkEnv"
    /\ exitCode = 0
    /\ feeLookups = 0
    /\ combinedData = <<>>
    /\ mainLog = {}

NextMain ==
    \/ MainCheckEnv
    \/ MainFetchDetails
    \/ Start
    \/ RequestFails
    \/ RetryDelayDone
    \/ RequestExhausted
    \/ SwapsPage
    \/ MintsPage
    \/ BurnsPage
    \/ BatchDelayDone
    \/ MainFetched

SpecMain == InitMain /\ [][NextMain]_vars

(***************************************************************************)
(* main, the whole run after the checks: the ingestion, then calculateOHLC *)
(* on allSwaps, then calculateLiquidityMetrics on the records and on       *)
(* allMints and allBurns, then the final emission.  In this specification  *)
(* the two calculations are "notCalled" until main calls them.  The fields *)
(* of an event that the ingestion copies without reading them have one     *)
(* value each: every swap has sqrtPriceX96 = Q96 (the price 1), every mint *)
(* and burn the amount 1 over the ticks [0, 2).  The range of the run,     *)
(* [startTimestamp, endTimestamp], lies within one bucket, so the loop of  *)
(* calculateOHLC never meets a swap past the current bucket and OhlcRoll   *)
(* is not among the steps.                                                 *)
(***************************************************************************)
MaxRunEvents == 2

\* allSwaps as calculateOHLC reads it
SwapsRead(all) ==
    [j \in 1..Len(all) |-> [timestamp |-> all[j].timestamp, sqrtPriceX96 |-> Q96]]

\* allMints, allBurns as calculateLiquidityMetrics reads them
EventsRead(all) ==
    [j \in 1..Len(all) |->
        [id |-> all[j].id, timestamp |-> all[j].timestamp, amount |-> 1,
         tickLower |-> 0, tickUpper |-> 2]]

\* if (allSwaps.length > 0) ohlcRecords = calculateOHLC(allSwaps, ...): the
\* call, or ohlcRecords left empty
MainCallOHLC ==
    /\ mainPc = "calculate"
    /\ ohlcPc = "notCalled"
    /\ swaps' = SwapsRead(returned.allSwaps)
    /\ ohlcPc' = IF Len(returned.allSwaps) > 0 THEN "idle" ELSE "done"
    /\ UNCHANGED <<ingestVars, decimalsVars, ledgerVars, mainVars, swapIdx,
                   currentBucketStartTimestamp, bucketPrices, ohlcDataArray>>

\* if (ohlcRecords.length > 0) liquidityMetrics = calculateLiquidityMetrics(
\* ohlcRecords, allMints, allBurns, ...): the call, or liquidityMetrics left
\* empty
MainCallLiquidityMetrics ==
    /\ mainPc = "calculate"
    /\ ohlcPc = "done"
    /\ lmPc = "notCalled"
    /\ ohlcRecords' = ohlcDataArray
    /\ mintsArg' = EventsRead(returned.allMints)
    /\ burnsArg' = EventsRead(returned.allBurns)
    /\ lmPc' = IF Len(ohlcDataArray) > 0 THEN "idle" ELSE "done"
    /\ UNCHANGED <<ingestVars, decimalsVars, ohlcVars, mainVars, tickSpacing,
                   sortedMints, sortedBurns, tickLiquidityMap,
                   currentTotalLiquidityInPool, mintIdx, burnIdx, recordIdx,
                   liquidityMetrics, applied, clamped, ledgerHistory>>

InitRun ==
    /\ index \in {i \in Indexes :
                     Len(i.swaps) + Len(i.mints) + Len(i.burns) <= MaxRunEvents}
    /\ maxRecords \in 1..MaxPage
    /\ IngestIdle
    /\ DecimalsIdle
    /\ ohlcPc = "notCalled"
    /\ swaps = <<>>
    /\ swapIdx = 0
    /\ currentBucketStartTimestamp = 0
    /\ bucketPrices = <<>>
    /\ ohlcDataArray = <<>>
    /\ lmPc = "notCalled"
    /\ ohlcRecords = <<>>
    /\ mintsArg = <<>>
    /\ burnsArg = <<>>
    /\ tickSpacing = getTickSpacingFromFee(100).returns
    /\ sortedMints = <<>>
    /\ sortedBurns = <<>>
    /\ tickLiquidityMap = <<>>
    /\ currentTotalLiquidityInPool = 0
    /\ mintIdx = 0
    /\ burnIdx = 0
    /\ recordIdx = 0
    /\ liquidityMetrics = <<>>
    /\ applied = <<>>
    /\ clamped = FALSE
    /\ ledgerHistory = <<>>
    /\ MainAt("fetch", 100)

NextRun ==
    \/ Start
    \/ RequestFails
    \/ RetryDelayDone
    \/ RequestExhausted
    \/ SwapsPage
    \/ MintsPage
    \/ BurnsPage
    \/ BatchDelayDone
    \/ MainFetched
    \/ MainCallOHLC
    \/ OhlcStart
    \/ OhlcPush
    \/ OhlcFinish
    \/ MainCallLiquidityMetrics
    \/ LmStart
    \/ LmApplyMint
    \/ LmApplyBurn
    \/ LmEmitMetric
    \/ MainCombine

SpecRun == InitRun /\ [][NextRun]_vars

\* the run under its scheduling: every awaited request settles, every delay
\* ends and main runs to its end, so a step that can be taken is taken
SpecRunFair == InitRun /\ [][NextRun]_vars /\ WF_vars(NextRun)

(***************************************************************************)
(* Vocabulary of the claims about ingestion.                               *)
(***************************************************************************)
\* the events of kind k of the index in [startTimestamp, endTimestamp)
InRange(k) ==
    SelectSeq(index[k],
              LAMBDA e : e.timestamp >= startTimestamp /\ e.timestamp < endTimestamp)

Occurrences(s, id) == Cardinality({j \in 1..Len(s) : s[j].id = id})

KindOrder(k) == IF k = "swaps" THEN 1 ELSE IF k = "mints" THEN 2 ELSE 3

\* the loop of kind k has ended
LoopOver(k) == pc = "done" \/ (pc # "start" /\ KindOrder(kind) > KindOrder(k))

All(k) == IF k = "swaps" THEN allSwaps ELSE IF k = "mints" THEN allMints ELSE allBurns

RequestsOf(k) == SelectSeq(pageRequests, LAMBDA r : r.kind = k)

\* s holds exactly the events of `events`, each id once, in timestamp order
ExactlyOnceInOrder(s, events) ==
    /\ Len(s) = Len(events)
    /\ \A j \in 1..Len(events) : Occurrences(s, events[j].id) = 1
    /\ IsSortedByTimestamp(s)

(***************************************************************************)
(* C1.  Trade ingestion is complete and duplicate-free: with K trades in   *)
(* [start, end) and page size N < K, a failure-free run of the swaps loop  *)
(* returns exactly the K trades, each id once, in non-decreasing timestamp *)
(* order.                                                                  *)
(***************************************************************************)
C1_TradeIngestionComplete ==
    (/\ LoopOver("swaps")
     /\ "swaps" \notin failed
     /\ maxRecords < Len(InRange("swaps")))
    => ExactlyOnceInOrder(allSwaps, InRange("swaps"))

(***************************************************************************)
(* C2.  Deposit and withdraw ingestion is complete and duplicate-free:     *)
(* with K events of the kind in [start, end) and page size N < K, a        *)
(* failure-free run asks for skip = 0, N, 2N, ... until a page shorter     *)
(* than N, and returns exactly the K events, each id once, in              *)
(* non-decreasing timestamp order.                                         *)
(***************************************************************************)
C2_OffsetIngestionComplete ==
    \A k \in {"mints", "burns"} :
        (/\ LoopOver(k)
         /\ k \notin failed
         /\ maxRecords < Len(InRange(k)))
        => /\ \A j \in 1..Len(RequestsOf(k)) :
                  RequestsOf(k)[j].variables.skip = (j - 1) * maxRecords
           /\ Len(RequestsOf(k)) = (Len(All(k)) \div maxRecords) + 1
           /\ ExactlyOnceInOrder(All(k), InRange(k))

(***************************************************************************)
(* C3.  Every event returned by the ingestion of any of the three kinds    *)
(* has a timestamp t with start <= t < end; no event with t = end is       *)
(* returned.                                                               *)
(***************************************************************************)
C3_EventsWithinRange ==
    \A k \in Kinds : \A j \in 1..Len(All(k)) :
        /\ startTimestamp <= All(k)[j].timestamp
        /\ All(k)[j].timestamp < endTimestamp

(***************************************************************************)
(* C4.  Page size 2 and exactly three trades in range, at seconds 10, 20   *)
(* and 30: the swaps loop issues exactly two page requests and returns     *)
(* exactly those three trades in order.                                    *)
(***************************************************************************)
C4_ThreeTradesTwoPages ==
    (/\ LoopOver("swaps")
     /\ "swaps" \notin failed
     /\ maxRecords = 2
     /\ [j \in 1..Len(index.swaps) |-> index.swaps[j].timestamp] = <<10, 20, 30>>)
    => /\ Len(RequestsOf("swaps")) = 2
       /\ [j \in 1..Len(allSwaps) |-> allSwaps[j].timestamp] = <<10, 20, 30>>
       /\ ExactlyOnceInOrder(allSwaps, index.swaps)

(***************************************************************************)
(* C5.  makeGraphQLRequest attempts a request at most maxRetries times,    *)
(* waits the delay between two consecutive attempts and not after the last *)
(* one, returns on the first success, and throws the last error after      *)
(* exactly maxRetries failures.                                            *)
(***************************************************************************)
C5_BoundedRetry ==
    /\ attemptsMade <= MAX_RETRIES
    /\ pc \in {"inflight", "retryDelay"} =>
           /\ attempt = attemptsMade - 1
           /\ delaysWaited = attemptsMade - 1
    /\ pc = "retryDelay" => attemptsMade < MAX_RETRIES
    /\ lastCall.result = "returned" =>
           /\ lastCall.attempts \in 1..MAX_RETRIES
           /\ lastCall.delays = lastCall.attempts - 1
    /\ lastCall.result = "thrown" =>
           /\ lastCall.attempts = MAX_RETRIES
           /\ lastCall.delays = MAX_RETRIES - 1
           /\ lastCall.error = MAX_RETRIES

\* a call has thrown after its last attempt, and a later call returned on
\* its second attempt
C5_Witness ==
    /\ exhausted # {}
    /\ lastCall.result = "returned"
    /\ lastCall.attempts = 2
    /\ lastCall.delays = 1

(***************************************************************************)
(* C6.  When a page request of a kind exhausts its retries, the loop of    *)
(* that kind issues no further request, and the events it returns are      *)
(* exactly the records of the pages that succeeded before, in the order    *)
(* received.                                                               *)
(***************************************************************************)
C6_PartialResultOnExhaustion ==
    \A k \in exhausted :
        /\ LoopOver(k)
        /\ Last(RequestsOf(k)).variables =
               (IF k = "swaps"
                THEN swapVariables(lastTimestampSwaps)
                ELSE IF k = "mints" THEN mintVariables(skipMints)
                ELSE burnVariables(skipBurns))
        /\ All(k) = received[k]
        /\ pc = "done" =>
               (IF k = "swaps" THEN returned.allSwaps
                ELSE IF k = "mints" THEN returned.allMints
                ELSE returned.allBurns) = received[k]

\* the swaps loop was stopped by exhaustion after a page had succeeded
C6_Witness ==
    /\ pc = "done"
    /\ "swaps" \in exhausted
    /\ Len(received.swaps) > 0
    /\ Len(RequestsOf("swaps")) = 2

(***************************************************************************)
(* C7.  When the ingestion of a kind stops on retry exhaustion, the        *)
(* outcome handed to the caller carries a partial-result signal with the   *)
(* error, so the caller can tell a partial list from a complete one.       *)
(***************************************************************************)
PartialSignal(outcome) ==
    IF "error" \in DOMAIN outcome THEN outcome.error ELSE "none"

C7_PartialResultSignalled ==
    (pc = "done" /\ exhausted # {}) => PartialSignal(returned) # "none"

(***************************************************************************)
(* Vocabulary of the claims about the ledger.                              *)
(***************************************************************************)
RECURSIVE SumAmounts(_, _)
\* the sum of the amounts of the applied events, withdraws counted negative
SumAmounts(log, n) ==
    IF n = 0 THEN 0
    ELSE SumAmounts(log, n - 1)
         + (IF log[n].kind = "mint" THEN log[n].event.amount
            ELSE 0 - log[n].event.amount)

RECURSIVE SumAmountTimesWidth(_, _)
\* the sum of amount * (upperTick - lowerTick), withdraws counted negative
SumAmountTimesWidth(log, n) ==
    IF n = 0 THEN 0
    ELSE SumAmountTimesWidth(log, n - 1)
         + (IF log[n].kind = "mint" THEN 1 ELSE 0 - 1)
           * log[n].event.amount * (log[n].event.tickUpper - log[n].event.tickLower)

(***************************************************************************)
(* C8.  Ledger conservation: as long as no clamp to zero was triggered,    *)
(* the pool total is the sum of the deposits applied minus the sum of the  *)
(* withdraws applied, and the sum of all per-tick accumulators is the sum  *)
(* over the applied events of amount * (upperTick - lowerTick), withdraws  *)
(* counted negative.                                                       *)
(***************************************************************************)
C8_LedgerConservation ==
    ~clamped =>
        /\ currentTotalLiquidityInPool = SumAmounts(applied, Len(applied))
        /\ SumOver(tickLiquidityMap, DOMAIN tickLiquidityMap) =
               SumAmountTimesWidth(applied, Len(applied))

\* a deposit and a withdraw were applied without a clamp and liquidity is left
C8_Witness ==
    /\ lmPc = "done"
    /\ ~clamped
    /\ \E a, b \in 1..Len(applied) :
           applied[a].kind = "mint" /\ applied[b].kind = "burn"
    /\ currentTotalLiquidityInPool > 0

(***************************************************************************)
(* C9.  Ratio bounds: every liquidity metric emitted while no clamp to     *)
(* zero was triggered has 0 <= ratio <= 1, that is                         *)
(* activeLiquidityInRange <= totalLiquidityInPool, whatever the tick range *)
(* [lowTick, highTick) of the bucket.                                      *)
(***************************************************************************)
C9_RatioBounds ==
    ~clamped =>
        \A j \in 1..Len(liquidityMetrics) :
            LET m == liquidityMetrics[j] IN
            /\ 0 <= m.ratio
            /\ m.ratio <= ratioScalingFactor
            /\ m.activeLiquidityInRange <= m.totalLiquidityInPool

(***************************************************************************)
(* C10.  OHLC bounds: every bucket emitted by calculateOHLC has            *)
(* low <= open <= high and low <= close <= high, whatever the swap array.  *)
(***************************************************************************)
C10_OHLCBounds ==
    \A j \in 1..Len(ohlcDataArray) :
        LET b == ohlcDataArray[j] IN
        /\ b.low <= b.open /\ b.open <= b.high
        /\ b.low <= b.close /\ b.close <= b.high

\* a returned bucket of three prices whose open is strictly between low and
\* high and whose close is the low
C10_Witness ==
    /\ ohlcPc = "done"
    /\ \E j \in 1..Len(ohlcDataArray) :
           LET b == ohlcDataArray[j] IN
           b.low < b.open /\ b.open < b.high /\ b.close = b.low

(***************************************************************************)
(* Vocabulary of the claims about the buckets.                             *)
(***************************************************************************)
\* the start of the bucket of width bucketWidth that holds second ts
BucketOf(ts) == ts - (ts % BUCKET_INTERVAL_SECONDS)

\* the trades of the argument whose bucket starts at S, in the argument's order
TradesOf(S) == SelectSeq(swaps, LAMBDA s : BucketOf(s.timestamp) = S)

\* the decoded prices of a sequence of trades
PricesOf(trades) ==
    [i \in 1..Len(trades) |->
        sqrtPriceX96ToPrice(trades[i].sqrtPriceX96, token0Decimals, token1Decimals)]

TimestampsOf(s) == [i \in 1..Len(s) |-> s[i].timestamp]

(***************************************************************************)
(* C11.  For a trade sequence with non-decreasing timestamps, each bucket  *)
(* returned by calculateOHLC with start S summarises exactly the trades    *)
(* whose bucket start is S: open is the price of the first such trade,     *)
(* close the price of the last, high the maximum and low the minimum of    *)
(* their prices.  Trades at 100, 1800 and 3500 give one row.               *)
(***************************************************************************)
C11_BucketSummarisesItsTrades ==
    (ohlcPc = "done" /\ IsSortedByTimestamp(swaps)) =>
        /\ \A j \in 1..Len(ohlcDataArray) :
               LET b == ohlcDataArray[j]
                   prices == PricesOf(TradesOf(b.timestamp))
               IN  /\ Len(prices) > 0
                   /\ b.open = prices[1]
                   /\ b.close = prices[Len(prices)]
                   /\ \A i \in 1..Len(prices) : b.low <= prices[i] /\ prices[i] <= b.high
                   /\ \E i \in 1..Len(prices) : prices[i] = b.high
                   /\ \E i \in 1..Len(prices) : prices[i] = b.low
        /\ TimestampsOf(swaps) = <<100, 1800, 3500>> =>
               LET prices == PricesOf(swaps) IN
               /\ Len(ohlcDataArray) = 1
               /\ ohlcDataArray[1].open = prices[1]
               /\ ohlcDataArray[1].close = prices[3]

\* the trades at 100, 1800 and 3500 with a middle price first, the highest
\* second and the lowest last have been summarised in one row
C11_Witness ==
    /\ ohlcPc = "done"
    /\ TimestampsOf(swaps) = <<100, 1800, 3500>>
    /\ [i \in 1..Len(swaps) |-> swaps[i].sqrtPriceX96] = <<4, 5, 3>>
    /\ Len(ohlcDataArray) = 1
    /\ ohlcDataArray[1].timestamp = 0
    /\ ohlcDataArray[1].high > ohlcDataArray[1].open
    /\ ohlcDataArray[1].close = ohlcDataArray[1].low
    /\ ohlcDataArray[1].close < ohlcDataArray[1].open

(***************************************************************************)
(* C12.  Gap semantics: for a trade sequence with non-decreasing           *)
(* timestamps, the bucket starts returned are exactly the bucket starts of *)
(* the trades' timestamps, each returned once; a bucket with no trade      *)
(* gives no row and no value is filled forward.                            *)
(***************************************************************************)
C12_GapSemantics ==
    (ohlcPc = "done" /\ IsSortedByTimestamp(swaps)) =>
        /\ {ohlcDataArray[j].timestamp : j \in 1..Len(ohlcDataArray)} =
               {BucketOf(swaps[i].timestamp) : i \in 1..Len(swaps)}
        /\ \A j, k \in 1..Len(ohlcDataArray) :
               ohlcDataArray[j].timestamp = ohlcDataArray[k].timestamp => j = k

\* trades in the buckets starting at 0 and 7200 and none in the bucket
\* starting at 3600: two rows are returned
C12_Witness ==
    /\ ohlcPc = "done"
    /\ TimestampsOf(swaps) = <<100, 1800, 7300>>
    /\ TimestampsOf(ohlcDataArray) = <<0, 7200>>

(***************************************************************************)
(* Vocabulary of the claims about the replay.                              *)
(***************************************************************************)
\* the number of times the event e of the given kind was applied
TimesApplied(k, e) ==
    Cardinality({j \in 1..Len(applied) : applied[j] = [kind |-> k, event |-> e]})

\* the metric of the current record is about to be computed: both replay
\* loops of the record are over
MetricDue == lmPc = "loop" /\ ~MintPending /\ ~BurnPending

(***************************************************************************)
(* C13.  Replay order: the order in which calculateLiquidityMetrics        *)
(* applies the deposits and withdraws to the ledger, taken together as one *)
(* sequence, is non-decreasing in timestamp.                               *)
(***************************************************************************)
C13_ReplayOrder ==
    \A a, b \in 1..Len(applied) :
        a < b => applied[a].event.timestamp <= applied[b].event.timestamp

(***************************************************************************)
(* C14.  Ledger advance: when the metric of the bucket with start S is     *)
(* computed, the events applied to the ledger are exactly the deposits and *)
(* withdraws given with timestamp < S + bucketWidth, each applied exactly  *)
(* once; the events at or after S + bucketWidth are not yet applied.       *)
(***************************************************************************)
C14_LedgerAdvance ==
    MetricDue =>
        LET bucketEnd == ohlcRecords[recordIdx].timestamp + BUCKET_INTERVAL_SECONDS
            due(a) == {j \in 1..Len(a) : a[j].timestamp < bucketEnd}
        IN  /\ \A j \in 1..Len(mintsArg) :
                   TimesApplied("mint", mintsArg[j]) =
                       (IF j \in due(mintsArg) THEN 1 ELSE 0)
            /\ \A j \in 1..Len(burnsArg) :
                   TimesApplied("burn", burnsArg[j]) =
                       (IF j \in due(burnsArg) THEN 1 ELSE 0)
            /\ Len(applied) = Cardinality(due(mintsArg)) + Cardinality(due(burnsArg))

\* the metric of the first of two buckets is due: the event at second 100
\* is applied and the event at second 3600, the end of the bucket, is not
C14_Witness ==
    /\ MetricDue
    /\ recordIdx = 1
    /\ Len(ohlcRecords) = 2
    /\ Len(mintsArg) + Len(burnsArg) = 2
    /\ Len(applied) = 1
    /\ applied[1].event.timestamp = 100
    /\ \E j \in 1..Len(burnsArg) : burnsArg[j].timestamp = 3600

(***************************************************************************)
(* C15.  Alignment: the liquidity metrics returned by                      *)
(* calculateLiquidityMetrics are as many as the OHLC records and metric i  *)
(* has the timestamp of record i; so the final emission of main takes      *)
(* neither its length-mismatch branch nor its timestamp-mismatch warning,  *)
(* and the output has one row per OHLC record, keyed by its timestamp.     *)
(***************************************************************************)
C15_Alignment ==
    /\ lmPc = "done" =>
           /\ Len(liquidityMetrics) = Len(ohlcRecords)
           /\ \A i \in 1..Len(ohlcRecords) :
                  liquidityMetrics[i].timestamp = ohlcRecords[i].timestamp
    /\ "lengthMismatch" \notin mainLog
    /\ "timestampMismatch" \notin mainLog
    /\ mainPc = "done" =>
           /\ Len(combinedData) = Len(ohlcRecords)
           /\ \A i \in 1..Len(ohlcRecords) :
                  combinedData[i].timestamp = ohlcRecords[i].timestamp

\* two records, the first met with an empty pool, were combined with their
\* metrics and written
C15_Witness ==
    /\ mainPc = "done"
    /\ "written" \in mainLog
    /\ TimestampsOf(combinedData) = <<0, 7200>>
    /\ combinedData[1].totalLiquidityInPool = 0
    /\ combinedData[2].totalLiquidityInPool > 0

(***************************************************************************)
(* Vocabulary of the claims about the configuration.                       *)
(***************************************************************************)
\* the value is set and is a decimal numeral: digits only, at least one
IsNumeral(e) ==
    /\ e.set
    /\ Len(e.value) > 0
    /\ \A i \in 1..Len(e.value) : e.value[i] \in Digits

\* start or end is missing or non-numeric, or start >= end
ConfigInvalid ==
    \/ ~IsNumeral(startTimestampStr)
    \/ ~IsNumeral(endTimestampStr)
    \/ parseInt(startTimestampStr.value) >= parseInt(endTimestampStr.value)

KnownFees == {100, 500, 3000, 10000}

(***************************************************************************)
(* C16.  A configuration with start >= end, or with a missing or           *)
(* non-numeric start or end, aborts the run before any page request is     *)
(* issued and before any output row is produced.                           *)
(***************************************************************************)
C16_InvalidRangeAborts ==
    ConfigInvalid =>
        /\ pageRequests = <<>>
        /\ combinedData = <<>>
        /\ mainPc \in {"checkEnv", "exited"}
        /\ mainPc = "exited" => exitCode = 1

(***************************************************************************)
(* C17.  getTickSpacingFromFee maps fee 100 to 1, 500 to 10, 3000 to 60    *)
(* and 10000 to 200; any other fee raises an error that aborts the run     *)
(* before any page request is issued, and the lookup is not tried again.   *)
(***************************************************************************)
C17_FeeLookup ==
    /\ getTickSpacingFromFee(100) = [returns |-> 1]
    /\ getTickSpacingFromFee(500) = [returns |-> 10]
    /\ getTickSpacingFromFee(3000) = [returns |-> 60]
    /\ getTickSpacingFromFee(10000) = [returns |-> 200]
    /\ feeLookups <= 1
    /\ fee \notin KnownFees =>
           /\ pageRequests = <<>>
           /\ mainPc \in {"checkEnv", "fetchDetails", "exited"}
           /\ feeLookups = 1 => (mainPc = "exited" /\ exitCode = 1)
    /\ (fee \in KnownFees /\ mainPc \in {"fetch", "calculate"}) =>
           /\ feeLookups = 1
           /\ [returns |-> tickSpacing] = getTickSpacingFromFee(fee)

\* a pool of fee 250: the lookup was made once and the run has exited
C17_Witness ==
    /\ fee = 250
    /\ feeLookups = 1
    /\ mainPc = "exited"
    /\ exitCode = 1
    /\ pageRequests = <<>>

(***************************************************************************)
(* Vocabulary of the claims about one deposit or withdraw.                 *)
(***************************************************************************)
\* the ledger after the j-th applied event
LedgerAfter(j) ==
    IF j < Len(applied)
    THEN ledgerHistory[j + 1]
    ELSE [total |-> currentTotalLiquidityInPool, map |-> tickLiquidityMap]

\* the ticks looked at around an event: the ticks the two ledgers hold and
\* the event's range with a margin on both sides
TicksAround(e, before, after) ==
    DOMAIN before.map \cup DOMAIN after.map
    \cup ((e.tickLower - 2)..(e.tickUpper + 2))

Max0(n) == IF n < 0 THEN 0 ELSE n

(***************************************************************************)
(* C18.  Applying a deposit (lowerTick, upperTick, amount) increases the   *)
(* pool total by amount and the accumulator of every tick t with           *)
(* lowerTick <= t < upperTick by amount, and leaves every other tick,      *)
(* upperTick included, as it was.                                          *)
(***************************************************************************)
C18_DepositEffect ==
    \A j \in 1..Len(applied) :
        applied[j].kind = "mint" =>
            LET e == applied[j].event
                before == ledgerHistory[j]
                after == LedgerAfter(j)
            IN  /\ after.total = before.total + e.amount
                /\ \A t \in TicksAround(e, before, after) :
                       MapGet(after.map, t) =
                           MapGet(before.map, t)
                           + (IF e.tickLower <= t /\ t < e.tickUpper
                              THEN e.amount ELSE 0)

\* a deposit over [0, 2) was applied to a ledger that held a deposit over
\* [1, 3): tick 1 holds both, ticks 0 and 2 one each
C18_Witness ==
    /\ Len(applied) >= 2
    /\ applied[1].kind = "mint" /\ applied[2].kind = "mint"
    /\ applied[1].event.tickLower = 1 /\ applied[2].event.tickLower = 0
    /\ MapGet(LedgerAfter(2).map, 1) =
           applied[1].event.amount + applied[2].event.amount
    /\ MapGet(LedgerAfter(2).map, 0) = applied[2].event.amount
    /\ MapGet(LedgerAfter(2).map, 2) = applied[1].event.amount

(***************************************************************************)
(* C19.  Applying a withdraw (lowerTick, upperTick, amount) sets the total *)
(* to max(0, total - amount) and the accumulator of every tick t with      *)
(* lowerTick <= t < upperTick to max(0, accumulator[t] - amount), each     *)
(* clamp decided on its own; the other ticks are unchanged.                *)
(***************************************************************************)
C19_WithdrawEffect ==
    \A j \in 1..Len(applied) :
        applied[j].kind = "burn" =>
            LET e == applied[j].event
                before == ledgerHistory[j]
                after == LedgerAfter(j)
            IN  /\ after.total = Max0(before.total - e.amount)
                /\ \A t \in TicksAround(e, before, after) :
                       MapGet(after.map, t) =
                           (IF e.tickLower <= t /\ t < e.tickUpper
                            THEN Max0(MapGet(before.map, t) - e.amount)
                            ELSE MapGet(before.map, t))

\* a withdraw of 1 over [1, 3) was applied to a ledger holding 2 over
\* [0, 2): tick 1 goes to 1 unclamped, tick 2 is clamped at 0, tick 0 and
\* the total are not clamped
C19_Witness ==
    /\ Len(applied) = 2
    /\ applied[1].kind = "mint" /\ applied[2].kind = "burn"
    /\ applied[1].event.tickLower = 0 /\ applied[1].event.amount = 2
    /\ applied[2].event.tickLower = 1 /\ applied[2].event.amount = 1
    /\ clamped
    /\ currentTotalLiquidityInPool = 1
    /\ MapGet(tickLiquidityMap, 0) = 2
    /\ MapGet(tickLiquidityMap, 1) = 1
    /\ MapGet(tickLiquidityMap, 2) = 0

(***************************************************************************)
(* C20.  Round trip: from any ledger state, a deposit of amount a over     *)
(* [l, u) followed by a withdraw of amount a over [l, u) returns the pool  *)
(* total and every per-tick accumulator to their values before the         *)
(* deposit; from an empty ledger both end at 0.                            *)
(***************************************************************************)
C20_RoundTrip ==
    \A j \in 1..(Len(applied) - 1) :
        (/\ applied[j].kind = "mint"
         /\ applied[j + 1].kind = "burn"
         /\ applied[j].event.amount = applied[j + 1].event.amount
         /\ applied[j].event.tickLower = applied[j + 1].event.tickLower
         /\ applied[j].event.tickUpper = applied[j + 1].event.tickUpper)
        => LET e == applied[j].event
               before == ledgerHistory[j]
               after == LedgerAfter(j + 1)
           IN  /\ after.total = before.total
               /\ \A t \in TicksAround(e, before, after) :
                      MapGet(after.map, t) = MapGet(before.map, t)
               /\ (before.total = 0 /\ \A t \in DOMAIN before.map : before.map[t] = 0) =>
                      /\ after.total = 0
                      /\ \A t \in DOMAIN after.map : after.map[t] = 0

\* a ledger holding a deposit over [1, 3) took a deposit of 2 over [0, 2)
\* and then a withdraw of 2 over [0, 2), and holds the first deposit again
C20_Witness ==
    /\ Len(applied) = 3
    /\ applied[1].kind = "mint" /\ applied[2].kind = "mint"
    /\ applied[3].kind = "burn"
    /\ applied[1].event.tickLower = 1
    /\ applied[2].event.tickLower = 0 /\ applied[2].event.amount = 2
    /\ applied[3].event.tickLower = 0 /\ applied[3].event.amount = 2
    /\ currentTotalLiquidityInPool = applied[1].event.amount
    /\ MapGet(tickLiquidityMap, 0) = 0
    /\ MapGet(tickLiquidityMap, 1) = applied[1].event.amount
    /\ MapGet(tickLiquidityMap, 2) = applied[1].event.amount

(***************************************************************************)
(* Vocabulary of the claims about the active liquidity.                    *)
(***************************************************************************)
\* the ticks a query is made with
QueryTicks == 0..3

Min2(a, b) == IF a <= b THEN a ELSE b

Max2(a, b) == IF a >= b THEN a ELSE b

\* the sum of the accumulators of the ticks a, a + 1, ..., b - 1, a tick the
\* ledger does not hold counting for zero
RECURSIVE RangeSum(_, _, _)
RangeSum(map, a, b) ==
    IF a >= b THEN 0
    ELSE (IF a \in DOMAIN map THEN map[a] ELSE 0) + RangeSum(map, a + 1, b)

\* the ticks of the price range of a record
LowTickOf(record) ==
    priceToTick(record.low, token0Decimals, token1Decimals, tickSpacing)

HighTickOf(record) ==
    priceToTick(record.high, token0Decimals, token1Decimals, tickSpacing)

(***************************************************************************)
(* C21.  activeLiquidity(lowTick, highTick) is the sum of accumulator[t]   *)
(* over every tick t with min(lowTick, highTick) <= t < max(lowTick,       *)
(* highTick), an absent tick counting for zero; it is symmetric in its two *)
(* arguments and leaves the upper endpoint out.  It is stated of every     *)
(* ledger the replay reaches and every pair of query ticks, and of the     *)
(* metric pushed for the last record.                                      *)
(***************************************************************************)
C21_ActiveLiquiditySum ==
    /\ \A l \in QueryTicks : \A h \in QueryTicks :
           LET active == ActiveLiquidity(tickLiquidityMap, l, h) IN
           /\ active = RangeSum(tickLiquidityMap, Min2(l, h), Max2(l, h))
           /\ l < h => active = ActiveLiquidity(tickLiquidityMap, h, l)
           /\ l <= h =>
                  ActiveLiquidity(tickLiquidityMap, l, h + 1) =
                      active + MapGet(tickLiquidityMap, h)
    /\ (lmPc = "done" /\ Len(liquidityMetrics) > 0) =>
           LET record == ohlcRecords[Len(ohlcRecords)]
           IN  liquidityMetrics[Len(liquidityMetrics)].activeLiquidityInRange =
                   RangeSum(tickLiquidityMap,
                            Min2(LowTickOf(record), HighTickOf(record)),
                            Max2(LowTickOf(record), HighTickOf(record)))

\* the last record has the price range [0, 2) and the ledger holds 1 on tick
\* 0, 2 on tick 1 and 1 on tick 2: the metric holds 3, the upper endpoint
\* is left out, and the query (2, 0) gives what (0, 2) gives
C21_Witness ==
    /\ lmPc = "done"
    /\ Len(liquidityMetrics) > 0
    /\ MapGet(tickLiquidityMap, 0) = 1
    /\ MapGet(tickLiquidityMap, 1) = 2
    /\ MapGet(tickLiquidityMap, 2) = 1
    /\ liquidityMetrics[Len(liquidityMetrics)].activeLiquidityInRange = 3
    /\ ActiveLiquidity(tickLiquidityMap, 2, 0) = 3
    /\ ActiveLiquidity(tickLiquidityMap, 0, 3) = 4

(***************************************************************************)
(* C22.  Ledger non-negativity: in every state reached by replaying a      *)
(* sequence of deposits and withdraws, withdraws without a matching        *)
(* deposit included, the pool total and the accumulator of every tick are  *)
(* at least 0.                                                             *)
(***************************************************************************)
C22_LedgerNonNegative ==
    /\ currentTotalLiquidityInPool >= 0
    /\ \A t \in DOMAIN tickLiquidityMap : tickLiquidityMap[t] >= 0
    /\ \A j \in 1..Len(ledgerHistory) :
           /\ ledgerHistory[j].total >= 0
           /\ \A t \in DOMAIN ledgerHistory[j].map : ledgerHistory[j].map[t] >= 0

\* a withdraw of 2 over [1, 3) was applied to a ledger holding 1 over
\* [0, 2): the total and the ticks 1 and 2 were clamped at 0
C22_Witness ==
    /\ Len(applied) = 2
    /\ applied[1].kind = "mint" /\ applied[2].kind = "burn"
    /\ applied[1].event.tickLower = 0 /\ applied[1].event.amount = 1
    /\ applied[2].event.tickLower = 1 /\ applied[2].event.amount = 2
    /\ clamped
    /\ currentTotalLiquidityInPool = 0
    /\ MapGet(tickLiquidityMap, 0) = 1
    /\ MapGet(tickLiquidityMap, 1) = 0
    /\ 2 \in DOMAIN tickLiquidityMap
    /\ tickLiquidityMap[2] = 0

(***************************************************************************)
(* Vocabulary of the claims about the steps of the ingestion.              *)
(***************************************************************************)
\* a step in which a request of the swaps loop resolved with a full page
FullSwapsPageStep ==
    /\ pc = "inflight"
    /\ kind = "swaps"
    /\ Len(received'.swaps) = Len(received.swaps) + maxRecords

\* a step in which a request was rejected
FailedRequestStep ==
    /\ pc = "inflight"
    /\ \/ pc' = "retryDelay"
       \/ lastCall'.result = "thrown" /\ lastCall' # lastCall

(***************************************************************************)
(* C23.  Cursor progress in the trade ingestion: after every full page (N  *)
(* records) the cursor is strictly greater than before that page; it is    *)
(* the last record's timestamp when that exceeds the cursor, and cursor +  *)
(* 1 when the whole page has the cursor's timestamp (the stall guard); the *)
(* cursor never decreases, and a failed request does not change it.        *)
(***************************************************************************)
C23_CursorProgress ==
    [][/\ lastTimestampSwaps' >= lastTimestampSwaps
       /\ FullSwapsPageStep =>
              LET page == SubSeq(received'.swaps, Len(received.swaps) + 1,
                                 Len(received'.swaps))
              IN  /\ lastTimestampSwaps' > lastTimestampSwaps
                  /\ Last(page).timestamp > lastTimestampSwaps =>
                         lastTimestampSwaps' = Last(page).timestamp
                  /\ (\A j \in 1..Len(page) :
                          page[j].timestamp = lastTimestampSwaps) =>
                         lastTimestampSwaps' = lastTimestampSwaps + 1
                  /\ \/ Last(page).timestamp > lastTimestampSwaps
                     \/ \A j \in 1..Len(page) :
                            page[j].timestamp = lastTimestampSwaps
       /\ FailedRequestStep => lastTimestampSwaps' = lastTimestampSwaps]_vars

\* the guard has fired on a page of second 20 after the cursor had moved to
\* 20 from a page, and a request of the swaps loop had been rejected
C23_Witness ==
    /\ lastTimestampSwaps = 21
    /\ pc = "batchDelay"
    /\ kind = "swaps"
    /\ "swaps" \in failed
    /\ \E j \in 1..Len(pageRequests) :
           pageRequests[j].variables.startTime = 20

(***************************************************************************)
(* Vocabulary of the claim about termination.                              *)
(***************************************************************************)
\* the events of kind k the queries of the offset loops select
Selected(k) ==
    SelectSeq(index[k],
              LAMBDA e : e.timestamp >= startTimestamp /\ e.timestamp <= endTimestamp)

\* a number of page requests the loop of kind k never exceeds: the trade
\* loop gets at most two full pages ending at one timestamp, the offset
\* loops one page per N events, and each loop one page more
RequestBound(k) ==
    IF k = "swaps"
    THEN 2 * Cardinality({InRange(k)[j].timestamp : j \in 1..Len(InRange(k))}) + 1
    ELSE (Len(Selected(k)) \div maxRecords) + 1

(***************************************************************************)
(* C24.  Termination: for any finite closed event set, any page size N >=  *)
(* 1 and any pattern of request failures, the ingestion of each event kind *)
(* issues only finitely many page requests (here: never more than a number *)
(* fixed by the index and N) and ends, so fetchHistoricalDataWithTheGraph  *)
(* always returns.                                                         *)
(***************************************************************************)
C24_Termination ==
    /\ [](\A k \in Kinds : Len(RequestsOf(k)) <= RequestBound(k))
    /\ <>(pc = "done" /\ \A k \in Kinds : LoopOver(k))

\* the function has returned after the three ways a loop ends: the trade
\* loop by a short page, the deposit loop by retry exhaustion with its one
\* deposit not obtained, the withdraw loop by an empty page
C24_Witness ==
    /\ pc = "done"
    /\ maxRecords = 2
    /\ Len(RequestsOf("swaps")) = 1
    /\ Len(allSwaps) = 1
    /\ exhausted = {"mints"}
    /\ Len(index.mints) = 1
    /\ allMints = <<>>
    /\ Len(RequestsOf("burns")) = 1
    /\ index.burns = <<>>

(***************************************************************************)
(* Vocabulary of the claims about the whole run.                           *)
(***************************************************************************)
\* the page requests that have not settled
Outstanding == Len(pageRequests) - settled

\* calculateOHLC, calculateLiquidityMetrics have been called or passed over
BucketingStarted == ohlcPc # "notCalled"

MetricsStarted == lmPc # "notCalled"

(***************************************************************************)
(* C25.  Sequential ingestion: no deposit page request is issued before    *)
(* the trade ingestion has ended, no withdraw page request before the      *)
(* deposit ingestion has ended, and at most one page request is            *)
(* outstanding at any time; bucketing starts only after all three          *)
(* ingestions have ended.                                                  *)
(***************************************************************************)
C25_SequentialIngestion ==
    /\ \A i, j \in 1..Len(pageRequests) :
           i < j => KindOrder(pageRequests[i].kind) <= KindOrder(pageRequests[j].kind)
    /\ \A k \in Kinds :
           RequestsOf(k) # <<>> =>
               \A earlier \in Kinds :
                   KindOrder(earlier) < KindOrder(k) => LoopOver(earlier)
    /\ Outstanding \in {0, 1}
    /\ Outstanding = 1 <=> pc \in {"inflight", "retryDelay"}
    /\ (BucketingStarted \/ MetricsStarted \/ mainPc \in {"calculate", "done"}) =>
           /\ pc = "done"
           /\ \A k \in Kinds : LoopOver(k)
           /\ Outstanding = 0
           /\ \A k \in Kinds : RequestsOf(k) # <<>>

\* bucketing has started on the two trades of a run that asked for two pages
\* of trades, then one page of deposits, then one page of withdraws
C25_Witness ==
    /\ ohlcPc = "loop"
    /\ Len(swaps) = 2
    /\ settled = 4
    /\ Len(pageRequests) = 4
    /\ pageRequests[2].kind = "swaps"
    /\ pageRequests[3].kind = "mints"
    /\ pageRequests[4].kind = "burns"

(***************************************************************************)
(* C26.  Retry exhaustion in one stream does not crash or stop the run:    *)
(* after the ingestion of one event kind aborts, the remaining event kinds *)
(* are still ingested, and bucketing, metric computation and output        *)
(* proceed on the partial data of the aborted stream.  Stated of a run     *)
(* under its scheduling: once a loop has caught the error the run reaches  *)
(* the end of main, without an exit; there every kind has been asked for,  *)
(* an offset loop that did not abort holds every selected event once, the  *)
(* bucketing has read allSwaps as the ingestion left it and, when it holds *)
(* a trade, the metrics have read allMints and allBurns as they were left  *)
(* and one row per bucket is combined and handed to the writer.            *)
(***************************************************************************)
C26_ExhaustionDoesNotStopRun ==
    /\ [](exhausted # {} =>
              /\ exitCode = 0
              /\ mainPc # "exited"
              /\ mainPc = "done" =>
                     /\ \A k \in Kinds : RequestsOf(k) # <<>> /\ LoopOver(k)
                     /\ \A k \in {"mints", "burns"} \ exhausted :
                            \A j \in 1..Len(Selected(k)) :
                                Occurrences(All(k), Selected(k)[j].id) = 1
                     /\ ohlcPc = "done"
                     /\ lmPc = "done"
                     /\ swaps = SwapsRead(allSwaps)
                     /\ ohlcRecords = ohlcDataArray
                     /\ Len(allSwaps) > 0 =>
                            /\ Len(ohlcDataArray) > 0
                            /\ mintsArg = EventsRead(allMints)
                            /\ burnsArg = EventsRead(allBurns)
                            /\ Len(liquidityMetrics) = Len(ohlcDataArray)
                            /\ Len(combinedData) = Len(ohlcDataArray)
                            /\ "combined" \in mainLog
                            /\ mainLog \cap {"written", "writeFailed"} # {}
                     /\ Len(allSwaps) = 0 => mainLog = {"notEnoughData"})
    /\ (exhausted # {} ~> mainPc = "done")

\* the trade loop aborted on its second page, holding one of the two trades
\* of the index: the deposits and the withdraws were asked for, and the run
\* ended with the one bucket of that trade combined and written
C26_Witness ==
    /\ mainPc = "done"
    /\ exhausted = {"swaps"}
    /\ Len(index.swaps) = 2
    /\ Len(allSwaps) = 1
    /\ Len(RequestsOf("swaps")) = 2
    /\ Len(RequestsOf("mints")) = 1
    /\ Len(RequestsOf("burns")) = 1
    /\ Len(combinedData) = 1
    /\ mainLog = {"combined", "written"}

(***************************************************************************)
(* C27.  For a trade sequence with non-decreasing timestamps, every        *)
(* emitted OHLC bucket timestamp is a multiple of bucketWidth, equal to    *)
(* floor(ts / bucketWidth) * bucketWidth of its trades, and the emitted    *)
(* bucket timestamps are strictly increasing (no bucket start is emitted   *)
(* twice).  Stated of every state of the loop: the rows pushed so far are  *)
(* about trades already read, and lie before the bucket being filled.      *)
(***************************************************************************)
C27_BucketTimestamps ==
    IsSortedByTimestamp(swaps) =>
        /\ \A j \in 1..Len(ohlcDataArray) :
               LET S == ohlcDataArray[j].timestamp IN
               /\ S % BUCKET_INTERVAL_SECONDS = 0
               /\ \E i \in 1..Len(swaps) :
                      /\ ohlcPc = "loop" => i < swapIdx
                      /\ S <= swaps[i].timestamp
                      /\ swaps[i].timestamp < S + BUCKET_INTERVAL_SECONDS
               /\ ohlcPc = "loop" => S < currentBucketStartTimestamp
        /\ \A j, k \in 1..Len(ohlcDataArray) :
               j < k => ohlcDataArray[j].timestamp < ohlcDataArray[k].timestamp
        /\ ohlcPc = "done" =>
               \A i \in 1..Len(swaps) :
                   \E j \in 1..Len(ohlcDataArray) :
                       /\ ohlcDataArray[j].timestamp <= swaps[i].timestamp
                       /\ swaps[i].timestamp <
                              ohlcDataArray[j].timestamp + BUCKET_INTERVAL_SECONDS

\* trades at 1800, 3600 and 7300: three rows, starting at 0, 3600 and 7200
C27_Witness ==
    /\ ohlcPc = "done"
    /\ TimestampsOf(swaps) = <<1800, 3600, 7300>>
    /\ TimestampsOf(ohlcDataArray) = <<0, 3600, 7200>>

(***************************************************************************)
(* C28.  The ratio of a liquidity metric is 0 whenever the pool total is 0 *)
(* or the active liquidity is 0; otherwise it is the scaled integer        *)
(* quotient floor(active * 10^18 / total) read as a decimal with 18        *)
(* fractional digits, the division being made on integers.  The model      *)
(* writes the ratio in units of 1/ratioScalingFactor, its scaled-down      *)
(* 10^18; q is the floor of a / b when q * b <= a < (q + 1) * b.           *)
(***************************************************************************)
C28_RatioValue ==
    \A j \in 1..Len(liquidityMetrics) :
        LET m == liquidityMetrics[j]
            active == m.activeLiquidityInRange
            total == m.totalLiquidityInPool
        IN  /\ (total = 0 \/ active = 0) => m.ratio = 0
            /\ (total # 0 /\ active # 0) =>
                   /\ m.ratio * total <= active * ratioScalingFactor
                   /\ active * ratioScalingFactor < (m.ratio + 1) * total

\* a first metric on an empty pool with ratio 0, then a metric with active
\* liquidity 4 and total 3, whose ratio is 1.33333 with the last digit
\* rounded down
C28_Witness ==
    /\ Len(liquidityMetrics) = 2
    /\ liquidityMetrics[1].totalLiquidityInPool = 0
    /\ liquidityMetrics[1].ratio = 0
    /\ liquidityMetrics[2].activeLiquidityInRange = 4
    /\ liquidityMetrics[2].totalLiquidityInPool = 3
    /\ liquidityMetrics[2].ratio = 133333

(***************************************************************************)
(* Vocabulary of the claim about a ledger of tick-boundary deltas.  The    *)
(* ledger of deltas replays the events calculateLiquidityMetrics has       *)
(* applied, in the order it applied them: a deposit of a over [l, u) adds  *)
(* a to the delta of l and takes a from the delta of u, a withdraw does    *)
(* the opposite; the liquidity of a tick is the sum of the deltas of the   *)
(* ticks up to it, computed when a query is made.  The pool total is the   *)
(* scalar of the per-tick ledger, with its clamp.                          *)
(***************************************************************************)
DeltaAdd(deltas, t, a) ==
    [s \in DOMAIN deltas \cup {t} |->
        (IF s \in DOMAIN deltas THEN deltas[s] ELSE 0) + (IF s = t THEN a ELSE 0)]

RECURSIVE DeltaLedgerAfter(_)
DeltaLedgerAfter(j) ==
    IF j = 0 THEN [deltas |-> <<>>, total |-> 0]
    ELSE LET prev == DeltaLedgerAfter(j - 1)
             e == applied[j].event
             a == IF applied[j].kind = "mint" THEN e.amount ELSE 0 - e.amount
         IN  [deltas |-> DeltaAdd(DeltaAdd(prev.deltas, e.tickLower, a),
                                  e.tickUpper, 0 - a),
              total |-> Max0(prev.total + a)]

RECURSIVE SumDeltas(_, _)
SumDeltas(deltas, ticks) ==
    IF ticks = {} THEN 0
    ELSE LET t == CHOOSE x \in ticks : TRUE
         IN  deltas[t] + SumDeltas(deltas, ticks \ {t})

\* the prefix sum at tick t
PrefixSum(deltas, t) == SumDeltas(deltas, {s \in DOMAIN deltas : s <= t})

RECURSIVE PrefixRangeSum(_, _, _)
PrefixRangeSum(deltas, a, b) ==
    IF a >= b THEN 0
    ELSE PrefixSum(deltas, a) + PrefixRangeSum(deltas, a + 1, b)

\* activeLiquidity of the ledger of deltas
DeltaActiveLiquidity(deltas, lowTick, highTick) ==
    PrefixRangeSum(deltas, Min2(lowTick, highTick), Max2(lowTick, highTick))

\* the two ledgers answer alike after the events applied so far
LedgersAgree ==
    LET delta == DeltaLedgerAfter(Len(applied)) IN
    /\ delta.total = currentTotalLiquidityInPool
    /\ \A l \in QueryTicks : \A h \in QueryTicks :
           DeltaActiveLiquidity(delta.deltas, l, h) =
               ActiveLiquidity(tickLiquidityMap, l, h)

\* no withdraw applied so far met a tick of its range that held less than
\* its amount
NoTickClamped ==
    \A j \in 1..Len(applied) :
        applied[j].kind = "burn" =>
            \A t \in (applied[j].event.tickLower)..(applied[j].event.tickUpper - 1) :
                MapGet(ledgerHistory[j].map, t) >= applied[j].event.amount

(***************************************************************************)
(* C29, as claimed.  A ledger kept as tick-boundary deltas with a prefix   *)
(* sum evaluated at query time yields, for every sequence of deposits and  *)
(* withdraws and every query range, the same activeLiquidity and pool      *)
(* total as the per-tick ledger of calculateLiquidityMetrics.              *)
(***************************************************************************)
C29_DeltaLedgerEquivalent == LedgersAgree

(***************************************************************************)
(* C29, amended.  The two ledgers yield the same activeLiquidity for every *)
(* query range, and the same pool total, after every sequence of deposits  *)
(* and withdraws in which no withdraw meets a tick of its range that holds *)
(* less than the withdrawn amount (no per-tick clamp is made).             *)
(***************************************************************************)
C29_DeltaLedgerEquivalentUnclamped == NoTickClamped => LedgersAgree

\* a deposit of 2 over [0, 2), a deposit of 1 over [1, 3) and a withdraw of
\* 1 over [0, 2) were applied with no clamp: the ticks hold 1, 2 and 1 and
\* the query (0, 3) gives 4 on both ledgers
C29_Witness ==
    /\ Len(applied) = 3
    /\ applied[3].kind = "burn"
    /\ NoTickClamped
    /\ ~clamped
    /\ MapGet(tickLiquidityMap, 0) = 1
    /\ MapGet(tickLiquidityMap, 1) = 2
    /\ MapGet(tickLiquidityMap, 2) = 1
    /\ DeltaActiveLiquidity(DeltaLedgerAfter(3).deltas, 0, 3) = 4
    /\ DeltaActiveLiquidity(DeltaLedgerAfter(3).deltas, 3, 1) = 3

(***************************************************************************)
(* Vocabulary of the claim about missing trades.                           *)
(***************************************************************************)
\* the number of in-range trades of the index with the timestamp ts
SharingTimestamp(ts) ==
    Cardinality({j \in 1..Len(InRange("swaps")) : InRange("swaps")[j].timestamp = ts})

(***************************************************************************)
(* C30.  In a failure-free trade ingestion over a closed index that orders *)
(* records by timestamp, an in-range trade event is missing from the       *)
(* result only if more than N (the page size) in-range trade events share  *)
(* its timestamp: every event whose timestamp is shared by at most N       *)
(* events is returned at least once.                                       *)
(***************************************************************************)
C30_MissingOnlyWhenOverfull ==
    (LoopOver("swaps") /\ "swaps" \notin failed) =>
        \A j \in 1..Len(InRange("swaps")) :
            LET e == InRange("swaps")[j] IN
            /\ SharingTimestamp(e.timestamp) <= maxRecords =>
                   Occurrences(allSwaps, e.id) >= 1
            /\ Occurrences(allSwaps, e.id) = 0 =>
                   SharingTimestamp(e.timestamp) > maxRecords

\* pages of 2 over trades at 10, 20 and 20: the first page ends within the
\* two trades of second 20, the second page holds both, and the three
\* trades are in the result, the second one twice
C30_Witness ==
    /\ pc = "done"
    /\ failed = {}
    /\ maxRecords = 2
    /\ TimestampsOf(index.swaps) = <<10, 20, 20>>
    /\ Len(RequestsOf("swaps")) = 3
    /\ Occurrences(allSwaps, 1) = 1
    /\ Occurrences(allSwaps, 2) = 2
    /\ Occurrences(allSwaps, 3) = 1

(***************************************************************************)
(* C31.  The trade sequence returned by the ingestion, the records fetched *)
(* again by a later page included, is non-decreasing in timestamp in every *)
(* run (with or without failures and stall-guard steps), each page being   *)
(* returned in ascending timestamp order.                                  *)
(***************************************************************************)
C31_TradesNonDecreasing ==
    /\ IsSortedByTimestamp(allSwaps)
    /\ pc = "done" => IsSortedByTimestamp(returned.allSwaps)

\* pages of 2 over trades at 10, 20 and 20, with a rejected request on the
\* way: the second page fetched the trade of second 20 again and the guard
\* moved the cursor to 21; the result has the timestamps 10, 20, 20, 20
C31_Witness ==
    /\ pc = "done"
    /\ "swaps" \in failed
    /\ lastTimestampSwaps = 21
    /\ TimestampsOf(returned.allSwaps) = <<10, 20, 20, 20>>
    /\ Occurrences(returned.allSwaps, 2) = 2

(***************************************************************************)
(* Vocabulary of the claim about re-fetched trades.  The trade of id j of  *)
(* the index has a sqrtPriceX96 fixed by j, so that neighbouring trades    *)
(* differ in price; calculateOHLC is applied with the bucket width of main *)
(* and with widths that split the range of the run into several buckets.   *)
(***************************************************************************)
SqrtPriceOfTrade(id) == 3 + (id % 3)

TradesRead(all) ==
    [j \in 1..Len(all) |->
        [timestamp |-> all[j].timestamp, sqrtPriceX96 |-> SqrtPriceOfTrade(all[j].id)]]

\* s with repeated event ids removed, first occurrences kept
RECURSIVE WithoutRepeats(_)
WithoutRepeats(s) ==
    IF Len(s) = 0 THEN <<>>
    ELSE LET front == WithoutRepeats(SubSeq(s, 1, Len(s) - 1))
             e == s[Len(s)]
         IN  IF \E j \in 1..Len(front) : front[j].id = e.id
             THEN front
             ELSE Append(front, e)

BucketWidths == {10, 20, BUCKET_INTERVAL_SECONDS}

(***************************************************************************)
(* C32.  calculateOHLC applied to the ingested trade sequence yields the   *)
(* same OHLC rows as calculateOHLC applied to that sequence with repeated  *)
(* event ids removed (first occurrences kept), the index ordering records  *)
(* of equal timestamp the same way on every page: re-fetched records       *)
(* change no open, high, low, close or bucket timestamp.                   *)
(***************************************************************************)
C32_RefetchedTradesChangeNoRow ==
    \A w \in BucketWidths :
        calculateOHLC(TradesRead(allSwaps), w, 0, 0) =
            calculateOHLC(TradesRead(WithoutRepeats(allSwaps)), w, 0, 0)

\* pages of 2 over trades at 10, 20 and 20 of three different prices: the
\* trade of id 2 is in the result twice, and with buckets of 20 seconds
\* the rows are one for the first trade and one for the two others
C32_Witness ==
    /\ pc = "done"
    /\ TimestampsOf(allSwaps) = <<10, 20, 20, 20>>
    /\ Len(WithoutRepeats(allSwaps)) = 3
    /\ LET rows == calculateOHLC(TradesRead(allSwaps), 20, 0, 0) IN
       /\ Len(rows) = 2
       /\ rows[2].open > rows[2].close
       /\ rows[2].open = rows[2].high
       /\ rows[2].close = rows[2].low
       /\ rows[1].open # rows[2].open

(***************************************************************************)
(* Vocabulary of the claim about the order within one advance.             *)
(***************************************************************************)
\* a step in which a withdraw is applied to the ledger
WithdrawAppliedStep ==
    /\ Len(applied') = Len(applied) + 1
    /\ applied'[Len(applied')].kind = "burn"

SameTick(ohlcRecord) ==
    priceToTick(ohlcRecord.low, token0Decimals, token1Decimals, tickSpacing) =
        priceToTick(ohlcRecord.high, token0Decimals, token1Decimals, tickSpacing)

FailedAttemptStep ==
    /\ pc = "inflight"
    /\ \/ pc' = "retryDelay"
       \/ settled' = settled + 1 /\ lastCall'.result = "thrown"

\* a step in which client.request is sent again after the retry delay
RetryStep == pc = "retryDelay" /\ pc' = "inflight"

\* a step in which client.request resolved
SucceededRequestStep ==
    /\ pc = "inflight"
    /\ settled' = settled + 1
    /\ lastCall'.result = "returned"

PageOf(k, v) ==
    ProcessedBatch(IF k = "swaps" THEN swapQuery(v)
                   ELSE IF k = "mints" THEN mintQuery(v)
                   ELSE burnQuery(v))

IngestionStateUnchanged ==
    /\ allSwaps' = allSwaps
    /\ allMints' = allMints
    /\ allBurns' = allBurns
    /\ lastTimestampSwaps' = lastTimestampSwaps
    /\ skipMints' = skipMints
    /\ skipBurns' = skipBurns

C35_FailedAttemptLeavesState ==
    [][/\ FailedAttemptStep => IngestionStateUnchanged
       /\ RetryStep =>
              /\ IngestionStateUnchanged
              /\ kind' = kind
              /\ variables' = variables
              /\ pageRequests' = pageRequests
       /\ allSwaps' # allSwaps => SucceededRequestStep /\ kind = "swaps"
       /\ allMints' # allMints => SucceededRequestStep /\ kind = "mints"
       /\ allBurns' # allBurns => SucceededRequestStep /\ kind = "burns"
       /\ SucceededRequestStep =>
              /\ kind = "swaps" => allSwaps' = allSwaps \o PageOf("swaps", variables)
              /\ kind = "mints" => allMints' = allMints \o PageOf("mints", variables)
              /\ kind = "burns" => allBurns' = allBurns \o PageOf("burns", variables)
      ]_vars

\* the second page of the mints was rejected once and obtained by the retry:
\* two requests of the loop, three attempts, every deposit held once
C35_Witness ==
    /\ kind = "burns"
    /\ pc = "inflight"
    /\ attemptsMade = 1
    /\ "mints" \in failed
    /\ "swaps" \notin failed
    /\ maxRecords = 2
    /\ Last(RequestsOf("mints")).variables.skip = 2
    /\ skipMints = 2
    /\ lastCall.result = "returned"
    /\ lastCall.attempts = 2
    /\ Len(RequestsOf("mints")) = 2
    /\ Len(allMints) = 3
    /\ \A e \in 1..3 : Occurrences(allMints, e) = 1

(***************************************************************************)
(* C36.  sqrtPriceX96ToPrice computes on integers, before the conversion   *)
(* to a decimal, the value                                                 *)
(*   floor(sqrtPrice^2 * 10^decimals0 * scalingFactor                      *)
(*             / (Q192 * 10^decimals1)),                                   *)
(* the price in units of 1/scalingFactor, and this integer is              *)
(* non-decreasing in sqrtPrice for fixed decimals.  The prices of the      *)
(* bucket being filled are those of the last Len(bucketPrices) swaps read. *)
(***************************************************************************)
\* n is the floor of num / den, for den > 0
IsFloorOf(n, num, den) == n * den <= num /\ num < (n + 1) * den

\* the swap whose price is bucketPrices[a]
SwapOfBucketPrice(a) == swaps[swapIdx - 1 - Len(bucketPrices) + a]

C36_PriceIsFloorAndMonotone ==
    ohlcPc = "loop" =>
        /\ \A a \in 1..Len(bucketPrices) :
               IsFloorOf(bucketPrices[a],
                         SwapOfBucketPrice(a).sqrtPriceX96
                             * SwapOfBucketPrice(a).sqrtPriceX96
                             * (10^token0Decimals) * scalingFactor,
                         Q192 * (10^token1Decimals))
        /\ \A a, b \in 1..Len(bucketPrices) :
               SwapOfBucketPrice(a).sqrtPriceX96 <= SwapOfBucketPrice(b).sqrtPriceX96
                   => bucketPrices[a] <= bucketPrices[b]

\* sqrtPrice 3 and 5 with decimals 0 and 2: 9 * 10^5 / 1600 = 562.5 and
\* 25 * 10^5 / 1600 = 1562.5, both rounded down
C36_Witness ==
    /\ ohlcPc = "loop"
    /\ token0Decimals = 0
    /\ token1Decimals = 2
    /\ Len(bucketPrices) = 2
    /\ SwapOfBucketPrice(1).sqrtPriceX96 = 3
    /\ SwapOfBucketPrice(2).sqrtPriceX96 = 5
    /\ bucketPrices = <<562, 1562>>

(***************************************************************************)
(* C37.  For every positive price priceToTick returns                      *)
(*   round(log(effectivePrice) / log(sqrt(1.0001)) / spacing) * spacing    *)
(* with effectivePrice = price * 10^(decimals1 - decimals0), an integer    *)
(* multiple of the spacing.  log(effectivePrice) / log(sqrt(1.0001)) is    *)
(* tabulated for the prices of the model as rawTickMilli is, in            *)
(* thousandths of a tick rounded down; the property is stated of the low   *)
(* and the high price of every record that got its metric.                 *)
(***************************************************************************)
LogBaseSqrt10001Milli(effectivePrice) ==
    CASE effectivePrice = 100000 -> 0       \* log(1.0000) / log(sqrt(1.0001)) = 0
      [] effectivePrice = 100010 -> 2000    \* log(1.0001) / log(sqrt(1.0001)) = 2.00000...
      [] effectivePrice = 100050 -> 9998    \* log(1.0005) / log(sqrt(1.0001)) = 9.99800...
      [] effectivePrice = 101149 -> 228501  \* log(1.01149) / log(sqrt(1.0001)) = 228.50124...

TickBySqrt10001(price, d0, d1, spacing) ==
    LET effectivePrice == IF d1 >= d0 THEN price * (10^(d1 - d0))
                          ELSE price \div (10^(d0 - d1))
    IN  MathRoundDiv(LogBaseSqrt10001Milli(effectivePrice), spacing) * spacing

C37_TickIsLogBaseSqrt10001 ==
    \A j \in 1..Len(liquidityMetrics) :
        \A price \in {ohlcRecords[j].low, ohlcRecords[j].high} :
            LET tick == priceToTick(price, token0Decimals, token1Decimals,
                                    tickSpacing)
            IN  /\ tick = TickBySqrt10001(price, token0Decimals, token1Decimals,
                                          tickSpacing)
                /\ tick % tickSpacing = 0

(***************************************************************************)
(* C38.  In sqrtPriceX96ToPrice the denominator Q192 * 10^token1Decimals   *)
(* is strictly positive for every token1Decimals >= 0, so the branch of a  *)
(* zero denominator, which returns 0, is never taken: a price of 0 is      *)
(* pushed only when the scaled numerator is less than the denominator.     *)
(***************************************************************************)
C38_DenominatorPositive ==
    ohlcPc = "loop" =>
        \A a \in 1..Len(bucketPrices) :
            LET denominator == Q192 * (10^token1Decimals)
                scaledNumerator ==
                    SwapOfBucketPrice(a).sqrtPriceX96
                        * SwapOfBucketPrice(a).sqrtPriceX96
                        * (10^token0Decimals) * scalingFactor
            IN  /\ token1Decimals >= 0
                /\ denominator > 0
                /\ bucketPrices[a] = 0 => scaledNumerator < denominator

\* the largest denominator and the smallest numerator of the model: the
\* price pushed is that of the division, 9 * 10^5 / 1600
C38_Witness ==
    /\ ohlcPc = "loop"
    /\ token0Decimals = 0
    /\ token1Decimals = 2
    /\ Len(bucketPrices) = 1
    /\ SwapOfBucketPrice(1).sqrtPriceX96 = 3
    /\ bucketPrices[1] = 562
    /\ bucketPrices[1] > 0

====
